---- MODULE Spec2Model ----
(***************************************************************************)
(* A model of the presentation toolkit's core: the content document model  *)
(* (content.py), the layout cookbook (cookbook.py) and the template        *)
(* diagnostics (diagnose.py).                                              *)
(*                                                                         *)
(* Python values are modelled as follows.  A dict, or the keyword          *)
(* arguments of a constructor, is a record whose DOMAIN holds the keys     *)
(* that are present; d.get(k, default) is Get(d, k, default).  A call that *)
(* may raise returns Ok(value) or Err(exception).  A list is a sequence.   *)
(***************************************************************************)
EXTENDS Integers, Sequences, FiniteSets, TLC

VARIABLES
    cIn,      \* content.py: the last call made, with its arguments
    cSlide,   \* content.py: result of the last SlideContent(...) construction
    cDoc,     \* content.py: result of the last ContentDocument construction / conversion
    cOut,     \* content.py: result of the last content_document_to_slides(doc)
    cFile,    \* content.py: the file behind the path the calls are given
    cLoaded,  \* content.py: the last load_content_document(path), with the file it read
    cErrors,  \* content.py: the last validate_content_json(path), with the file it read
    COOKBOOK, \* cookbook.py: the global recipe registry, a dict name -> recipe
    kIn,      \* cookbook.py: the call to be made, with its arguments
    kTree,    \* cookbook.py: the slide tree the call works on or returns
    kRes,     \* cookbook.py: the results of the calls made so far
    dIn,      \* diagnose.py: per run, the diagnose_template call and its file
    dPc,      \* diagnose.py: per run, the check the run is about to make
    dReport,  \* diagnose.py: per run, the report the run is filling
    dOut,     \* diagnose.py: per run, what the call returned or raised
    rReport,  \* diagnose.py: a DiagnosticReport held by a caller
    rDict     \* diagnose.py: the last result of its to_dict()

contentVars == <<cIn, cSlide, cDoc, cOut, cFile, cLoaded, cErrors>>

cookbookVars == <<COOKBOOK, kIn, kTree, kRes>>

diagnoseVars == <<dIn, dPc, dReport, dOut>>

reportVars == <<rReport, rDict>>

vars == <<contentVars, cookbookVars, diagnoseVars, reportVars>>

----------------------------------------------------------------------------
(* Python helpers *)

Get(d, k, default) == IF k \in DOMAIN d THEN d[k] ELSE default

Ok(v) == [ok |-> TRUE, value |-> v]

Err(e) == [ok |-> FALSE, error |-> e]

NotCalled == [ok |-> FALSE, error |-> "not called"]

\* The callers that may each have one diagnose_template run under way.
Runs == { "a", "b" }

\* The diagnostics with no run under way.
DiagnoseIdle ==
    /\ dIn = [ r \in Runs |-> NotCalled ]
    /\ dPc = [ r \in Runs |-> "idle" ]
    /\ dReport = [ r \in Runs |-> NotCalled ]
    /\ dOut = [ r \in Runs |-> NotCalled ]

\* No DiagnosticReport held by a caller.
ReportIdle ==
    /\ rReport = NotCalled
    /\ rDict = NotCalled

----------------------------------------------------------------------------
(* content.py: enums *)

ContentType ==
    { "auto", "statistic", "stats_dashboard", "quote", "numbered_step",
      "bullet_list", "comparison", "section_header", "case_study",
      "case_study_full", "statement", "feature", "detailed_content",
      "title_opening", "closing" }

ImagePlacement == { "auto", "background", "left", "right", "center", "inline" }

----------------------------------------------------------------------------
(* content.py: models.  A constructor takes the record kw of the keyword   *)
(* arguments given and returns Ok(instance) or Err("ValidationError").     *)

SlideImage(kw) ==
    IF "path" \notin DOMAIN kw THEN Err("ValidationError")
    ELSE IF Get(kw, "placement", "auto") \notin ImagePlacement
    THEN Err("ValidationError")
    ELSE Ok([ path      |-> kw.path,
              width     |-> Get(kw, "width", 0),
              height    |-> Get(kw, "height", 0),
              ext       |-> Get(kw, "ext", ""),
              alt_text  |-> Get(kw, "alt_text", ""),
              placement |-> Get(kw, "placement", "auto") ])

StatZone(number, label) == [number |-> number, label |-> label]

MinStats == 1

MaxStats == 6

StatsDashboardZones(stats) ==
    IF Len(stats) < MinStats \/ Len(stats) > MaxStats
    THEN Err("ValidationError")
    ELSE Ok([ cls |-> "StatsDashboardZones", type |-> "stats_dashboard",
              stats |-> stats ])

CaseStudyZones(kw) ==
    Ok([ cls          |-> "CaseStudyZones",
         type         |-> "case_study_full",
         company_name |-> Get(kw, "company_name", ""),
         description  |-> Get(kw, "description", ""),
         bullets      |-> Get(kw, "bullets", ""),
         quote        |-> Get(kw, "quote", ""),
         attribution  |-> Get(kw, "attribution", "") ])

\* zones: Optional[...] = None
NoZones == [cls |-> "None"]

\* A validator that checks only the StatsDashboardZones branch.
zones_validator_stats_only(zones, content_type) ==
    /\ zones # NoZones
    /\ content_type # "auto"
    /\ zones.cls = "StatsDashboardZones"
    /\ content_type # "stats_dashboard"

\* The model validator: TRUE when it raises ValueError.
zones_must_match_content_type_raises(zones, content_type) ==
    /\ zones # NoZones
    /\ content_type # "auto"
    /\ \/ zones.cls = "StatsDashboardZones" /\ content_type # "stats_dashboard"
       \/ zones.cls = "CaseStudyZones" /\ content_type # "case_study_full"

MinNumber == 1

SlideContent(kw) ==
    IF \/ "number" \notin DOMAIN kw
       \/ "title" \notin DOMAIN kw
       \/ "body" \notin DOMAIN kw
    THEN Err("ValidationError")
    ELSE IF kw.number < MinNumber THEN Err("ValidationError")
    ELSE IF Get(kw, "content_type", "auto") \notin ContentType
    THEN Err("ValidationError")
    ELSE IF zones_must_match_content_type_raises(
                Get(kw, "zones", NoZones), Get(kw, "content_type", "auto"))
    THEN Err("ValidationError")
    ELSE Ok([ number           |-> kw.number,
              title            |-> kw.title,
              body             |-> kw.body,
              speaker_notes    |-> Get(kw, "speaker_notes", ""),
              content_type     |-> Get(kw, "content_type", "auto"),
              layout_hint      |-> Get(kw, "layout_hint", ""),
              images           |-> Get(kw, "images", << >>),
              zones            |-> Get(kw, "zones", NoZones),
              extraction_notes |-> Get(kw, "extraction_notes", << >>) ])

----------------------------------------------------------------------------
(* A format string is a sequence of one-character strings, so that         *)
(* str.lower() and str.lstrip(".") act on characters.                      *)

\* A normalisation that removes one leading dot only: v.lower() followed by
\* removeprefix(".").
normalize_format_one_dot(v) ==
    LET
        Lower(c) ==
            CASE c = "P" -> "p"
              [] c = "T" -> "t"
              [] c = "X" -> "x"
              [] c = "D" -> "d"
              [] c = "F" -> "f"
              [] c = "M" -> "m"
              [] OTHER   -> c
        lowered == [i \in 1..Len(v) |-> Lower(v[i])]
    IN  IF lowered # << >> /\ Head(lowered) = "." THEN Tail(lowered) ELSE lowered

normalize_format(v) ==
    LET
        Lower(c) ==
            CASE c = "P" -> "p"
              [] c = "T" -> "t"
              [] c = "X" -> "x"
              [] c = "D" -> "d"
              [] c = "F" -> "f"
              [] c = "M" -> "m"
              [] OTHER   -> c

        str_lower(s) == [i \in 1..Len(s) |-> Lower(s[i])]

        RECURSIVE str_lstrip(_, _)
        str_lstrip(s, ch) ==
            IF s # << >> /\ Head(s) = ch THEN str_lstrip(Tail(s), ch) ELSE s
    IN  str_lstrip(str_lower(v), ".")

ContentMetadata(kw) ==
    IF "source_file" \notin DOMAIN kw \/ "source_format" \notin DOMAIN kw
    THEN Err("ValidationError")
    ELSE Ok([ source_file   |-> kw.source_file,
              source_format |-> normalize_format(kw.source_format),
              generated_at  |-> Get(kw, "generated_at", ""),
              generator     |-> Get(kw, "generator", "") ])

MinSlides == 1

\* A ContentDocument whose slides field has no min_length.
ContentDocument_no_min_length(kw) ==
    IF "metadata" \notin DOMAIN kw \/ "slides" \notin DOMAIN kw
    THEN Err("ValidationError")
    ELSE Ok([ version  |-> Get(kw, "version", "1.0"),
              metadata |-> kw.metadata,
              slides   |-> kw.slides ])

ContentDocument(kw) ==
    IF "metadata" \notin DOMAIN kw \/ "slides" \notin DOMAIN kw
    THEN Err("ValidationError")
    ELSE IF Len(kw.slides) < MinSlides THEN Err("ValidationError")
    ELSE Ok([ version  |-> Get(kw, "version", "1.0"),
              metadata |-> kw.metadata,
              slides   |-> kw.slides ])

----------------------------------------------------------------------------
(* content.py: conversion functions.  In a legacy record an image entry    *)
(* carries its Python type: [py |-> "str", v |-> path] or                  *)
(* [py |-> "dict", v |-> dict]; an entry of any other type has another py. *)

\* One iteration of the loop of slides_to_content_document: the SlideContent
\* built from a legacy record, content_slides being the slides built so far.
convert_slide(slide, content_slides) ==
    LET RECURSIVE convert_images(_, _)
        convert_images(imgs, images) ==
            IF imgs = << >> THEN Ok(images)
            ELSE LET img == Head(imgs) IN
                 IF img.py = "str"
                 THEN convert_images(Tail(imgs),
                                     Append(images, SlideImage([path |-> img.v]).value))
                 ELSE IF img.py = "dict"
                 THEN LET r == SlideImage([ path      |-> Get(img.v, "path", ""),
                                            width     |-> Get(img.v, "width", 0),
                                            height    |-> Get(img.v, "height", 0),
                                            ext       |-> Get(img.v, "ext", ""),
                                            alt_text  |-> Get(img.v, "alt_text", ""),
                                            placement |-> Get(img.v, "placement", "auto") ])
                      IN IF r.ok THEN convert_images(Tail(imgs), Append(images, r.value))
                         ELSE r
                 ELSE convert_images(Tail(imgs), images)
        images == convert_images(Get(slide, "images", << >>), << >>)
    IN
    IF ~images.ok THEN images
    ELSE SlideContent(
           [ number           |-> Get(slide, "number", Len(content_slides) + 1),
             title            |-> Get(slide, "title", ""),
             body             |-> Get(slide, "body", ""),
             speaker_notes    |-> Get(slide, "speaker_notes", ""),
             content_type     |-> Get(slide, "_content_type", "auto"),
             layout_hint      |-> Get(slide, "layout_hint", Get(slide, "layout", "")),
             images           |-> images.value,
             extraction_notes |-> Get(slide, "_extraction_notes", << >>) ])

\* A conversion that numbers every record without number as the first.
RECURSIVE convert_slides_first_position(_, _)
convert_slides_first_position(slides, content_slides) ==
    IF slides = << >> THEN Ok(content_slides)
    ELSE LET sc == convert_slide(Head(slides), << >>) IN
         IF sc.ok
         THEN convert_slides_first_position(Tail(slides),
                                            Append(content_slides, sc.value))
         ELSE sc

\* A best-effort conversion: a record whose SlideContent is rejected is left
\* out and the loop goes on.
RECURSIVE convert_slides_skipping_invalid(_, _)
convert_slides_skipping_invalid(slides, content_slides) ==
    IF slides = << >> THEN Ok(content_slides)
    ELSE LET sc == convert_slide(Head(slides), content_slides) IN
         IF sc.ok
         THEN convert_slides_skipping_invalid(Tail(slides),
                                              Append(content_slides, sc.value))
         ELSE convert_slides_skipping_invalid(Tail(slides), content_slides)

RECURSIVE convert_slides(_, _)
convert_slides(slides, content_slides) ==
    IF slides = << >> THEN Ok(content_slides)
    ELSE LET sc == convert_slide(Head(slides), content_slides) IN
         IF sc.ok THEN convert_slides(Tail(slides), Append(content_slides, sc.value))
         ELSE sc

\* now is the value of datetime.now(timezone.utc).isoformat() at the call.
slides_to_content_document(slides, source_file, source_format, now) ==
    LET content_slides == convert_slides(slides, << >>) IN
    IF ~content_slides.ok THEN content_slides
    ELSE LET metadata == ContentMetadata(
                 [ source_file   |-> source_file,
                   source_format |-> source_format,
                   generated_at  |-> now,
                   generator     |-> "ai-presentation-toolkit" ])
         IN IF ~metadata.ok THEN metadata
            ELSE ContentDocument([ version  |-> "1.0",
                                   metadata |-> metadata.value,
                                   slides   |-> content_slides.value ])

\* A serialisation of the payload that leaves out its tag and the labels.
zones_to_dict_untagged(zones) ==
    IF zones.cls = "StatsDashboardZones"
    THEN [ stats |-> [i \in 1..Len(zones.stats) |->
                        [ number |-> zones.stats[i].number ]] ]
    ELSE [ company_name |-> zones.company_name,
           description  |-> zones.description,
           bullets      |-> zones.bullets,
           quote        |-> zones.quote,
           attribution  |-> zones.attribution ]

zones_to_dict(zones) ==
    IF zones.cls = "StatsDashboardZones"
    THEN [ type  |-> "stats_dashboard",
           stats |-> [i \in 1..Len(zones.stats) |->
                        [ number |-> zones.stats[i].number,
                          label  |-> zones.stats[i].label ]] ]
    ELSE [ type         |-> "case_study_full",
           company_name |-> zones.company_name,
           description  |-> zones.description,
           bullets      |-> zones.bullets,
           quote        |-> zones.quote,
           attribution  |-> zones.attribution ]

\* d @@ (k :> v) adds key k to dict d when d lacks it.
slide_to_dict(sc) ==
    LET image_to_dict(img) ==
            [ py |-> "dict",
              v  |-> [ path |-> img.path, width |-> img.width,
                       height |-> img.height, ext |-> img.ext ] ]
        base == [ number      |-> sc.number,
                  title       |-> sc.title,
                  body        |-> sc.body,
                  layout      |-> IF sc.layout_hint # "" THEN sc.layout_hint
                                  ELSE "DEFAULT",
                  images      |-> [i \in 1..Len(sc.images) |->
                                     image_to_dict(sc.images[i])],
                  image_count |-> Len(sc.images) ]
        d1 == IF sc.content_type # "auto"
              THEN base @@ ("_content_type" :> sc.content_type) ELSE base
        d2 == IF sc.zones # NoZones
              THEN d1 @@ ("_zones" :> zones_to_dict(sc.zones)) ELSE d1
        d3 == IF sc.extraction_notes # << >>
              THEN d2 @@ ("_extraction_notes" :> sc.extraction_notes) ELSE d2
        d4 == IF sc.speaker_notes # ""
              THEN d3 @@ ("speaker_notes" :> sc.speaker_notes) ELSE d3
    IN d4

content_document_to_slides(doc) ==
    [i \in 1..Len(doc.slides) |-> slide_to_dict(doc.slides[i])]

----------------------------------------------------------------------------
(* content.py: serialization and validation.  The file behind a path is    *)
(* absent, or holds bytes that are no UTF-8 text, or text that is no JSON, *)
(* or the JSON value data: [py |-> "dict", v |-> record] for an object,    *)
(* another py for a value of another type.                                 *)

NoFile == [ exists |-> FALSE ]

\* save_content_document without exclude_none=True: a slide without zone
\* payload is written with "zones": null.
save_content_document_with_nulls(doc) ==
    LET dump_slide(sc) ==
            [ number           |-> sc.number,
              title            |-> sc.title,
              body             |-> sc.body,
              speaker_notes    |-> sc.speaker_notes,
              content_type     |-> sc.content_type,
              layout_hint      |-> sc.layout_hint,
              images           |-> sc.images,
              extraction_notes |-> sc.extraction_notes,
              zones            |-> IF sc.zones = NoZones THEN NoZones
                                   ELSE [ k \in DOMAIN sc.zones \ { "cls" } |->
                                            sc.zones[k] ] ]
    IN  [ exists |-> TRUE, utf8 |-> TRUE, json_ok |-> TRUE,
          data |-> [ py |-> "dict",
                     v  |-> [ version  |-> doc.version,
                              metadata |-> doc.metadata,
                              slides   |-> [ i \in 1..Len(doc.slides) |->
                                               dump_slide(doc.slides[i]) ] ] ] ]

\* The file save_content_document(doc, path) leaves behind the path:
\* doc.model_dump(mode="json", exclude_none=True), written as JSON.
save_content_document(doc) ==
    LET dump_slide(sc) ==
            LET base ==
                    [ number           |-> sc.number,
                      title            |-> sc.title,
                      body             |-> sc.body,
                      speaker_notes    |-> sc.speaker_notes,
                      content_type     |-> sc.content_type,
                      layout_hint      |-> sc.layout_hint,
                      images           |-> sc.images,
                      extraction_notes |-> sc.extraction_notes ]
            IN  IF sc.zones = NoZones THEN base
                ELSE base @@ ("zones" :>
                         [ k \in DOMAIN sc.zones \ { "cls" } |-> sc.zones[k] ])
    IN  [ exists |-> TRUE, utf8 |-> TRUE, json_ok |-> TRUE,
          data |-> [ py |-> "dict",
                     v  |-> [ version  |-> doc.version,
                              metadata |-> doc.metadata,
                              slides   |-> [ i \in 1..Len(doc.slides) |->
                                               dump_slide(doc.slides[i]) ] ] ] ]

\* ContentDocument(**data): the nested models are built from the dicts.  A
\* zones dict is taken for the first variant of the Union that accepts it,
\* and a null for None.
ContentDocument_from_data(data) ==
    LET parse_zones(z) ==
            LET stats == IF "stats" \in DOMAIN z
                         THEN StatsDashboardZones(z.stats)
                         ELSE Err("ValidationError")
            IN  IF stats.ok THEN stats ELSE CaseStudyZones(z)
        parse_images(imgs) == [ i \in 1..Len(imgs) |-> SlideImage(imgs[i]) ]
        parse_slide(d) ==
            LET images == parse_images(Get(d, "images", << >>))
                kw == [ k \in DOMAIN d |->
                          IF k = "zones"
                          THEN IF d[k] = NoZones THEN NoZones
                               ELSE parse_zones(d[k]).value
                          ELSE IF k = "images"
                          THEN [ i \in 1..Len(images) |-> images[i].value ]
                          ELSE d[k] ]
            IN  IF \E i \in 1..Len(images) : ~images[i].ok
                THEN Err("ValidationError")
                ELSE SlideContent(kw)
    IN  IF data.py # "dict" THEN Err("TypeError")
        ELSE IF "metadata" \notin DOMAIN data.v \/ "slides" \notin DOMAIN data.v
        THEN Err("ValidationError")
        ELSE LET metadata == ContentMetadata(data.v.metadata)
                 slides == [ i \in 1..Len(data.v.slides) |->
                               parse_slide(data.v.slides[i]) ]
             IN  IF ~metadata.ok \/ \E i \in 1..Len(slides) : ~slides[i].ok
                 THEN Err("ValidationError")
                 ELSE ContentDocument(
                          [ version  |-> Get(data.v, "version", "1.0"),
                            metadata |-> metadata.value,
                            slides   |-> [ i \in 1..Len(slides) |->
                                             slides[i].value ] ])

load_content_document(file) ==
    IF ~file.exists THEN Err("FileNotFoundError")
    ELSE IF ~file.utf8 THEN Err("UnicodeDecodeError")
    ELSE IF ~file.json_ok THEN Err("JSONDecodeError")
    ELSE ContentDocument_from_data(file.data)

\* validator.iter_errors(data) under schemas/content.schema.json, which the
\* models mirror: the messages, one per violation reported
schema_errors(data) ==
    IF ContentDocument_from_data(data).ok THEN << >>
    ELSE << << "(root)", ": ", "schema violation" >> >>

\* validate_content_json(path): the list of messages, each the sequence of
\* the pieces its f-string joins, or the exception that leaves the call.
\* jsonschema tells whether the import of jsonschema succeeds.
validate_content_json(path, file, jsonschema) ==
    IF ~file.exists THEN Ok(<< << "File not found: ", path >> >>)
    ELSE IF ~file.utf8 THEN Err("UnicodeDecodeError")
    ELSE IF ~file.json_ok
    THEN Ok(<< << "Invalid JSON: ", "Expecting value" >> >>)
    ELSE IF jsonschema THEN Ok(schema_errors(file.data))
    ELSE LET doc == ContentDocument_from_data(file.data)
         IN  IF doc.ok THEN Ok(<< >>)
             ELSE Ok(<< << doc.error >> >>)

----------------------------------------------------------------------------
(* A Python dict is a sequence of [key, value] entries in insertion order. *)

dict_has(d, k) == \E i \in 1..Len(d) : d[i].key = k

dict_get(d, k, default) ==
    IF dict_has(d, k)
    THEN d[CHOOSE i \in 1..Len(d) : d[i].key = k].value
    ELSE default

\* d[k] = v
dict_set(d, k, v) ==
    IF dict_has(d, k)
    THEN [i \in 1..Len(d) |-> IF d[i].key = k THEN [key |-> k, value |-> v]
                              ELSE d[i]]
    ELSE Append(d, [key |-> k, value |-> v])

\* list(d.keys())
dict_keys(d) == [i \in 1..Len(d) |-> d[i].key]

----------------------------------------------------------------------------
(* cookbook.py: data classes.  Inch measurements are given in tenths of an *)
(* inch; int(x * EMU_PER_INCH) truncates.                                  *)

EMU_PER_INCH == 914400

int_of_inches(tenths) == (tenths * EMU_PER_INCH) \div 10

BoxPosition_from_inches(x, y, w, h) ==
    [ x  |-> int_of_inches(x),
      y  |-> int_of_inches(y),
      cx |-> int_of_inches(w),
      cy |-> int_of_inches(h) ]

DefaultFontSizePt == 14

TextBoxSpec(kw) ==
    [ name            |-> kw.name,
      position        |-> kw.position,
      font_size_pt    |-> Get(kw, "font_size_pt", DefaultFontSizePt),
      bold            |-> Get(kw, "bold", FALSE),
      italic          |-> Get(kw, "italic", FALSE),
      alignment       |-> Get(kw, "alignment", "l"),
      font_color      |-> Get(kw, "font_color", "000000"),
      vertical_anchor |-> Get(kw, "vertical_anchor", "t") ]

ImageBoxSpec(name, position) == [name |-> name, position |-> position]

BackgroundSpec(kw) ==
    [ color |-> Get(kw, "color", "FFFFFF"), image |-> Get(kw, "image", FALSE) ]

\* title: Optional[TextBoxSpec] = None
NoSpec == [cls |-> "None"]

LayoutRecipe(kw) ==
    [ name             |-> kw.name,
      description      |-> Get(kw, "description", ""),
      title            |-> Get(kw, "title", NoSpec),
      body             |-> Get(kw, "body", NoSpec),
      extra_text_boxes |-> Get(kw, "extra_text_boxes", << >>),
      image_boxes      |-> Get(kw, "image_boxes", << >>),
      background       |-> Get(kw, "background", BackgroundSpec(<< >>)) ]

----------------------------------------------------------------------------
(* cookbook.py: the built-in recipes *)

\* zone_num = row_idx * 3 + col_idx + 1, in column-major order instead.
zone_num_column_major(row_idx, col_idx) == col_idx * 2 + row_idx + 1

zone_num(row_idx, col_idx) == row_idx * 3 + col_idx + 1

\* _build_recipes(): every recipe, then the assignments recipes[name] = ...
\* in source order.
build_recipes ==
    LET
        col_positions == << 5, 35, 65 >>

        row_positions == << 15, 42 >>

        \* The two boxes one iteration of the inner loop appends.
        stat_zone_pair(row_idx, col_idx) ==
            LET row_y == row_positions[row_idx + 1]
                col_x == col_positions[col_idx + 1]
                n     == zone_num(row_idx, col_idx)
            IN << TextBoxSpec([ name |-> "Stat" \o ToString(n) \o "_Number",
                                position |-> BoxPosition_from_inches(col_x, row_y, 25, 12),
                                font_size_pt |-> 36, bold |-> TRUE,
                                alignment |-> "ctr", vertical_anchor |-> "b" ]),
                  TextBoxSpec([ name |-> "Stat" \o ToString(n) \o "_Label",
                                position |-> BoxPosition_from_inches(col_x, row_y + 12, 25, 8),
                                font_size_pt |-> 12, alignment |-> "ctr",
                                font_color |-> "666666", vertical_anchor |-> "t" ]) >>

        \* for row_idx, row_y in enumerate(row_positions):
        \*     for col_idx, col_x in enumerate(col_positions): ...
        RECURSIVE stat_zones_loop(_, _, _)
        stat_zones_loop(row_idx, col_idx, acc) ==
            IF row_idx >= Len(row_positions) THEN acc
            ELSE IF col_idx >= Len(col_positions)
            THEN stat_zones_loop(row_idx + 1, 0, acc)
            ELSE stat_zones_loop(row_idx, col_idx + 1,
                                 acc \o stat_zone_pair(row_idx, col_idx))

        stat_zones == stat_zones_loop(0, 0, << >>)

        Recipe_title_opening ==
            LayoutRecipe(
              [ name |-> "title_opening",
                description |-> "Opening/title slide with large centered title",
                title |-> TextBoxSpec([name |-> "title", position |-> BoxPosition_from_inches(10, 20, 80, 20), font_size_pt |-> 36, bold |-> TRUE, alignment |-> "ctr", vertical_anchor |-> "ctr"]),
                body |-> TextBoxSpec([name |-> "subtitle", position |-> BoxPosition_from_inches(20, 42, 60, 10), font_size_pt |-> 18, alignment |-> "ctr", font_color |-> "666666"]) ])

        Recipe_feature_default ==
            LayoutRecipe(
              [ name |-> "feature_default",
                description |-> "Standard feature slide with title and bullet body",
                title |-> TextBoxSpec([name |-> "title", position |-> BoxPosition_from_inches(7, 5, 86, 10), font_size_pt |-> 28, bold |-> TRUE]),
                body |-> TextBoxSpec([name |-> "body", position |-> BoxPosition_from_inches(7, 17, 86, 50)]) ])

        Recipe_content_image_left ==
            LayoutRecipe(
              [ name |-> "content_image_left",
                description |-> "Image on left, text content on right",
                title |-> TextBoxSpec([name |-> "title", position |-> BoxPosition_from_inches(52, 5, 45, 10), font_size_pt |-> 24, bold |-> TRUE]),
                body |-> TextBoxSpec([name |-> "body", position |-> BoxPosition_from_inches(52, 17, 45, 50)]),
                image_boxes |-> << ImageBoxSpec("image_left", BoxPosition_from_inches(3, 3, 45, 69)) >> ])

        Recipe_content_image_right ==
            LayoutRecipe(
              [ name |-> "content_image_right",
                description |-> "Text content on left, image on right",
                title |-> TextBoxSpec([name |-> "title", position |-> BoxPosition_from_inches(5, 5, 45, 10), font_size_pt |-> 24, bold |-> TRUE]),
                body |-> TextBoxSpec([name |-> "body", position |-> BoxPosition_from_inches(5, 17, 45, 50)]),
                image_boxes |-> << ImageBoxSpec("image_right", BoxPosition_from_inches(52, 3, 45, 69)) >> ])

        Recipe_statement_center ==
            LayoutRecipe(
              [ name |-> "statement_center",
                description |-> "Bold centered statement with optional subtitle",
                title |-> TextBoxSpec([name |-> "title", position |-> BoxPosition_from_inches(10, 20, 80, 25), font_size_pt |-> 32, bold |-> TRUE, alignment |-> "ctr", vertical_anchor |-> "ctr"]),
                body |-> TextBoxSpec([name |-> "body", position |-> BoxPosition_from_inches(15, 48, 70, 15), font_size_pt |-> 16, alignment |-> "ctr", font_color |-> "666666"]) ])

        Recipe_stat_default ==
            LayoutRecipe(
              [ name |-> "stat_default",
                description |-> "Single large statistic with label",
                title |-> TextBoxSpec([name |-> "stat_number", position |-> BoxPosition_from_inches(10, 15, 80, 30), font_size_pt |-> 72, bold |-> TRUE, alignment |-> "ctr", vertical_anchor |-> "ctr"]),
                body |-> TextBoxSpec([name |-> "stat_label", position |-> BoxPosition_from_inches(15, 45, 70, 20), font_size_pt |-> 18, alignment |-> "ctr", font_color |-> "666666"]) ])

        Recipe_stats_dashboard ==
            LayoutRecipe(
              [ name |-> "stats_dashboard",
                description |-> "6-zone 3x2 grid for multiple statistics",
                title |-> TextBoxSpec([name |-> "title", position |-> BoxPosition_from_inches(5, 3, 90, 8), font_size_pt |-> 24, bold |-> TRUE, alignment |-> "ctr"]),
                extra_text_boxes |->
                    stat_zones ])

        Recipe_quote_default ==
            LayoutRecipe(
              [ name |-> "quote_default",
                description |-> "Centered quote with attribution",
                title |-> TextBoxSpec([name |-> "quote", position |-> BoxPosition_from_inches(15, 15, 70, 35), font_size_pt |-> 24, italic |-> TRUE, alignment |-> "ctr", vertical_anchor |-> "ctr"]),
                body |-> TextBoxSpec([name |-> "attribution", position |-> BoxPosition_from_inches(20, 52, 60, 10), alignment |-> "ctr", font_color |-> "888888"]) ])

        Recipe_two_column ==
            LayoutRecipe(
              [ name |-> "two_column",
                description |-> "Two-column comparison layout",
                title |-> TextBoxSpec([name |-> "title", position |-> BoxPosition_from_inches(5, 5, 90, 8), font_size_pt |-> 24, bold |-> TRUE, alignment |-> "ctr"]),
                body |-> TextBoxSpec([name |-> "col_left", position |-> BoxPosition_from_inches(5, 15, 42, 52)]),
                extra_text_boxes |->
                    << TextBoxSpec([name |-> "col_right", position |-> BoxPosition_from_inches(53, 15, 42, 52)]) >> ])

        Recipe_section_divider ==
            LayoutRecipe(
              [ name |-> "section_divider",
                description |-> "Section divider with large centered text",
                title |-> TextBoxSpec([name |-> "title", position |-> BoxPosition_from_inches(10, 25, 80, 25), font_size_pt |-> 40, bold |-> TRUE, alignment |-> "ctr", vertical_anchor |-> "ctr"]),
                background |-> BackgroundSpec([color |-> "12285F"]) ])

        Recipe_case_study_full ==
            LayoutRecipe(
              [ name |-> "case_study_full",
                description |-> "Full case study with company, description, bullets, quote, attribution",
                title |-> TextBoxSpec([name |-> "company_name", position |-> BoxPosition_from_inches(5, 3, 90, 8), font_size_pt |-> 28, bold |-> TRUE]),
                body |-> TextBoxSpec([name |-> "description", position |-> BoxPosition_from_inches(5, 13, 50, 25)]),
                extra_text_boxes |->
                    << TextBoxSpec([name |-> "bullets", position |-> BoxPosition_from_inches(5, 40, 50, 30), font_size_pt |-> 13]),
                       TextBoxSpec([name |-> "Quote", position |-> BoxPosition_from_inches(60, 13, 35, 35), font_size_pt |-> 16, italic |-> TRUE, alignment |-> "ctr", vertical_anchor |-> "ctr"]),
                       TextBoxSpec([name |-> "Attribution", position |-> BoxPosition_from_inches(60, 50, 35, 10), font_size_pt |-> 12, alignment |-> "ctr", font_color |-> "888888"]) >> ])

        Recipe_closing_cta ==
            LayoutRecipe(
              [ name |-> "closing_cta",
                description |-> "Closing slide with call to action",
                title |-> TextBoxSpec([name |-> "title", position |-> BoxPosition_from_inches(10, 20, 80, 20), font_size_pt |-> 32, bold |-> TRUE, alignment |-> "ctr", vertical_anchor |-> "ctr"]),
                body |-> TextBoxSpec([name |-> "cta", position |-> BoxPosition_from_inches(20, 45, 60, 15), font_size_pt |-> 18, alignment |-> "ctr", font_color |-> "009CDE"]) ])

        Recipe_hero_photo ==
            LayoutRecipe(
              [ name |-> "hero_photo",
                description |-> "Full-bleed photo background with text overlay",
                title |-> TextBoxSpec([name |-> "title", position |-> BoxPosition_from_inches(7, 45, 86, 15), font_size_pt |-> 32, bold |-> TRUE, font_color |-> "FFFFFF"]),
                body |-> TextBoxSpec([name |-> "body", position |-> BoxPosition_from_inches(7, 60, 86, 10), font_size_pt |-> 16, font_color |-> "FFFFFF"]),
                image_boxes |-> << ImageBoxSpec("background", BoxPosition_from_inches(0, 0, 100, 75)) >>,
                background |-> BackgroundSpec([image |-> TRUE]) ])

        RECURSIVE build_dict(_, _)
        build_dict(d, rs) ==
            IF rs = << >> THEN d
            ELSE build_dict(dict_set(d, Head(rs).name, Head(rs)), Tail(rs))
    IN
    build_dict(<< >>,
        << Recipe_title_opening, Recipe_feature_default,
           Recipe_content_image_left, Recipe_content_image_right,
           Recipe_statement_center, Recipe_stat_default,
           Recipe_stats_dashboard, Recipe_quote_default, Recipe_two_column,
           Recipe_section_divider, Recipe_case_study_full,
           Recipe_closing_cta, Recipe_hero_photo >>)

\* def get_recipe(name): return COOKBOOK.get(name), raising on a miss instead.
get_recipe_raising(name) ==
    IF dict_has(COOKBOOK, name) THEN Ok(dict_get(COOKBOOK, name, NoSpec))
    ELSE Err("KeyError")

\* Optional[LayoutRecipe]: None
NoRecipe == [cls |-> "None"]

get_recipe(name) == Ok(dict_get(COOKBOOK, name, NoRecipe))

list_recipes == Ok(dict_keys(COOKBOOK))

----------------------------------------------------------------------------
(* cookbook.py: XML generation.  An element is a record of its attribute   *)
(* dicts and of its text; an attribute that is not set is absent from its  *)
(* dict.  A slide tree is [spTree, children]: whether the container        *)
(* p:cSld/p:spTree exists, and the elements below it in document order.    *)

\* Largest integer an id attribute of a tree denotes.
IdLimit == 60

\* int(s): the integer a decimal string denotes, else ValueError.
py_int(s) ==
    IF \E n \in -1..IdLimit : ToString(n) = s
    THEN Ok(CHOOSE n \in -1..IdLimit : ToString(n) = s)
    ELSE Err("ValueError")

\* A text box whose bold and italic attributes are always written.
build_text_box_xml_flags_always(spec, shape_id) ==
    [ tag      |-> "sp",
      cNvPr    |-> [id |-> ToString(shape_id), name |-> spec.name],
      cNvSpPr  |-> [txBox |-> "1"],
      off      |-> [x |-> ToString(spec.position.x), y |-> ToString(spec.position.y)],
      ext      |-> [cx |-> ToString(spec.position.cx), cy |-> ToString(spec.position.cy)],
      prstGeom |-> [prst |-> "rect"],
      bodyPr   |-> [wrap |-> "square", anchor |-> spec.vertical_anchor, rtlCol |-> "0"],
      pPr      |-> [algn |-> spec.alignment],
      rPr      |-> [ lang |-> "en-US", sz |-> ToString(spec.font_size_pt * 100),
                     dirty |-> "0",
                     b |-> IF spec.bold THEN "1" ELSE "0",
                     i |-> IF spec.italic THEN "1" ELSE "0" ],
      srgbClr  |-> [val |-> spec.font_color],
      t        |-> "" ]

build_text_box_xml(spec, shape_id) ==
    LET rPr0 == [ lang |-> "en-US", sz |-> ToString(spec.font_size_pt * 100),
                  dirty |-> "0" ]
        rPr1 == IF spec.bold THEN rPr0 @@ ("b" :> "1") ELSE rPr0
        rPr2 == IF spec.italic THEN rPr1 @@ ("i" :> "1") ELSE rPr1
    IN [ tag      |-> "sp",
         cNvPr    |-> [id |-> ToString(shape_id), name |-> spec.name],
         cNvSpPr  |-> [txBox |-> "1"],
         off      |-> [x |-> ToString(spec.position.x), y |-> ToString(spec.position.y)],
         ext      |-> [cx |-> ToString(spec.position.cx), cy |-> ToString(spec.position.cy)],
         prstGeom |-> [prst |-> "rect"],
         bodyPr   |-> [wrap |-> "square", anchor |-> spec.vertical_anchor, rtlCol |-> "0"],
         pPr      |-> [algn |-> spec.alignment],
         rPr      |-> rPr2,
         srgbClr  |-> [val |-> spec.font_color],
         t        |-> "" ]

\* The loop over spTree.xpath(".//p:cNvPr"): the largest id found, from 1.
RECURSIVE scan_max_id(_, _)
scan_max_id(children, max_id) ==
    IF children = << >> THEN max_id
    ELSE LET e == Head(children) IN
         IF "cNvPr" \notin DOMAIN e THEN scan_max_id(Tail(children), max_id)
         ELSE LET sid == py_int(Get(e.cNvPr, "id", "0")) IN
              IF sid.ok /\ sid.value > max_id
              THEN scan_max_id(Tail(children), sid.value)
              ELSE scan_max_id(Tail(children), max_id)

\* A scan that keeps the last id found rather than the largest.
max_existing_id_last(children) ==
    LET withId == SelectSeq(children,
                    LAMBDA e : "cNvPr" \in DOMAIN e
                               /\ py_int(Get(e.cNvPr, "id", "0")).ok)
    IN IF withId = << >> THEN 1
       ELSE py_int(Get(withId[Len(withId)].cNvPr, "id", "0")).value

max_existing_id(children) == scan_max_id(children, 1)

\* sp = build_text_box_xml(spec, next_id); t_elem.text = text; spTree.append(sp)
append_text_box(children, spec, next_id, text) ==
    Append(children, [build_text_box_xml(spec, next_id) EXCEPT !.t = text])

\* The loop over the extra boxes without next_id += 1: every extra box gets
\* the same id.
RECURSIVE append_extras_same_id(_, _, _)
append_extras_same_id(children, extras, next_id) ==
    IF extras = << >> THEN children
    ELSE append_extras_same_id(
             Append(children, build_text_box_xml(Head(extras), next_id)),
             Tail(extras), next_id)

\* for extra in recipe.extra_text_boxes: ... next_id += 1
RECURSIVE append_extras(_, _, _)
append_extras(children, extras, next_id) ==
    IF extras = << >> THEN children
    ELSE append_extras(Append(children, build_text_box_xml(Head(extras), next_id)),
                       Tail(extras), next_id + 1)

\* apply_recipe_to_slide with the body box placed before the title box.
apply_recipe_to_slide_body_first(slide_root, recipe, title, body) ==
    IF ~slide_root.spTree THEN slide_root
    ELSE LET n0 == max_existing_id(slide_root.children) + 1
             c1 == IF recipe.body # NoSpec /\ body # ""
                   THEN append_text_box(slide_root.children, recipe.body, n0, body)
                   ELSE slide_root.children
             n1 == IF recipe.body # NoSpec /\ body # "" THEN n0 + 1 ELSE n0
             c2 == IF recipe.title # NoSpec /\ title # ""
                   THEN append_text_box(c1, recipe.title, n1, title)
                   ELSE c1
             n2 == IF recipe.title # NoSpec /\ title # "" THEN n1 + 1 ELSE n1
         IN [ slide_root EXCEPT !.children =
                append_extras(c2, recipe.extra_text_boxes, n2) ]

\* apply_recipe_to_slide that creates the spTree container when the slide
\* has none, instead of returning.
apply_recipe_to_slide_creating_sptree(slide_root, recipe, title, body) ==
    LET c0 == IF slide_root.spTree THEN slide_root.children ELSE << >>
        n0 == max_existing_id(c0) + 1
        c1 == IF recipe.title # NoSpec /\ title # ""
              THEN append_text_box(c0, recipe.title, n0, title)
              ELSE c0
        n1 == IF recipe.title # NoSpec /\ title # "" THEN n0 + 1 ELSE n0
        c2 == IF recipe.body # NoSpec /\ body # ""
              THEN append_text_box(c1, recipe.body, n1, body)
              ELSE c1
        n2 == IF recipe.body # NoSpec /\ body # "" THEN n1 + 1 ELSE n1
    IN [ spTree   |-> TRUE,
         children |-> append_extras(c2, recipe.extra_text_boxes, n2) ]

\* n0, n1, n2 are the values next_id takes; c1, c2 the children of spTree
\* after the title step and after the body step.
apply_recipe_to_slide(slide_root, recipe, title, body) ==
    IF ~slide_root.spTree THEN slide_root
    ELSE LET n0 == max_existing_id(slide_root.children) + 1
             c1 == IF recipe.title # NoSpec /\ title # ""
                   THEN append_text_box(slide_root.children, recipe.title, n0, title)
                   ELSE slide_root.children
             n1 == IF recipe.title # NoSpec /\ title # "" THEN n0 + 1 ELSE n0
             c2 == IF recipe.body # NoSpec /\ body # ""
                   THEN append_text_box(c1, recipe.body, n1, body)
                   ELSE c1
             n2 == IF recipe.body # NoSpec /\ body # "" THEN n1 + 1 ELSE n1
         IN [ slide_root EXCEPT !.children =
                append_extras(c2, recipe.extra_text_boxes, n2) ]

\* nvGrpSpPr with its cNvPr id="1" name="", and grpSpPr with a zeroed xfrm.
GroupNode == [tag |-> "nvGrpSpPr", cNvPr |-> [id |-> "1", name |-> ""]]

GroupProps ==
    [ tag |-> "grpSpPr", off |-> [x |-> "0", y |-> "0"],
      ext |-> [cx |-> "0", cy |-> "0"], chOff |-> [x |-> "0", y |-> "0"],
      chExt |-> [cx |-> "0", cy |-> "0"] ]

FirstShapeId == 2

\* build_slide_from_recipe that skips the extra boxes when no text is given.
build_slide_from_recipe_no_extras_when_empty(recipe, title, body) ==
    LET c0 == << GroupNode, GroupProps >>
        c1 == IF recipe.title # NoSpec /\ title # ""
              THEN append_text_box(c0, recipe.title, FirstShapeId, title)
              ELSE c0
        n1 == IF recipe.title # NoSpec /\ title # "" THEN FirstShapeId + 1
              ELSE FirstShapeId
        c2 == IF recipe.body # NoSpec /\ body # ""
              THEN append_text_box(c1, recipe.body, n1, body)
              ELSE c1
        n2 == IF recipe.body # NoSpec /\ body # "" THEN n1 + 1 ELSE n1
    IN [ spTree   |-> TRUE,
         children |-> IF title = "" /\ body = "" THEN c2
                      ELSE append_extras(c2, recipe.extra_text_boxes, n2) ]

build_slide_from_recipe(recipe, title, body) ==
    LET c0 == << GroupNode, GroupProps >>
        c1 == IF recipe.title # NoSpec /\ title # ""
              THEN append_text_box(c0, recipe.title, FirstShapeId, title)
              ELSE c0
        n1 == IF recipe.title # NoSpec /\ title # "" THEN FirstShapeId + 1
              ELSE FirstShapeId
        c2 == IF recipe.body # NoSpec /\ body # ""
              THEN append_text_box(c1, recipe.body, n1, body)
              ELSE c1
        n2 == IF recipe.body # NoSpec /\ body # "" THEN n1 + 1 ELSE n1
    IN [ spTree   |-> TRUE,
         children |-> append_extras(c2, recipe.extra_text_boxes, n2) ]

----------------------------------------------------------------------------
(* Inputs of the content model's calls *)

StatsPayload1 ==
    StatsDashboardZones(<< StatZone("85%", "Satisfaction") >>).value

StatsPayload2 ==
    StatsDashboardZones(<< StatZone("85%", "Satisfaction"),
                           StatZone("$2.5M", "Revenue") >>).value

CasePayload ==
    CaseStudyZones([ company_name |-> "Acme", description |-> "Story",
                     bullets |-> "- A", quote |-> "Wow",
                     attribution |-> "CEO" ]).value

ZonePayloads == { StatsPayload1, StatsPayload2, CasePayload }

\* Legacy slide records, as the upstream stages produce them.
LegacyRecords ==
    LET
        ImageDict == [ py |-> "dict",
                       v  |-> [ path |-> "/tmp/img.png", width |-> 800,
                                height |-> 600, ext |-> "png" ] ]

        ImageStr == [ py |-> "str", v |-> "a.png" ]
    IN  { [ number |-> 1, title |-> "Title Slide", body |-> "Subtitle here",
            layout |-> "TITLE", images |-> << ImageDict >>,
            _extraction_notes |-> << "Note 1" >> ],
          [ number |-> 2, title |-> "Stats Page", body |-> "85% satisfaction",
            layout |-> "DEFAULT", images |-> << >> ],
          [ number |-> 1, title |-> "Stat", body |-> "85%",
            _content_type |-> "statistic" ],
          [ title |-> "No number" ],
          [ number |-> 3, title |-> " Two  words. ", body |-> "",
            images |-> << ImageStr, ImageDict >>, speaker_notes |-> "say" ],
          [ number |-> 2, title |-> "Stats", body |-> "",
            _content_type |-> "stats_dashboard",
            _zones |-> zones_to_dict(StatsPayload2) ],
          [ number |-> 4, title |-> "Acme", body |-> "",
            _content_type |-> "case_study_full",
            _zones |-> zones_to_dict(CasePayload) ],
          [ number |-> 0, title |-> "Zero", body |-> "" ],
          [ number |-> 2, title |-> "Bogus", body |-> "",
            _content_type |-> "bogus" ] }

\* Longest list of legacy records passed to slides_to_content_document.
MaxRecords == 2

RecordLists == UNION { [1..n -> LegacyRecords] : n \in 0..MaxRecords }

Numbers == { 0, 1, 2 }

SourceFormats == { << "p", "p", "t", "x" >>, << ".", "P", "P", "T", "X" >>,
                   << ".", ".", "M", "d" >> }

\* Values of the clock read by slides_to_content_document.
Clock == { "2026-01-01T00:00:00+00:00", "2026-01-01T00:00:01+00:00" }

SomeMetadata ==
    ContentMetadata([ source_file |-> "test.pptx",
                      source_format |-> << "p", "p", "t", "x" >> ]).value

\* Valid SlideContent instances, for direct ContentDocument construction.
SomeSlides ==
    { SlideContent([number |-> 1, title |-> "Hello", body |-> "World"]).value,
      SlideContent([number |-> 2, title |-> "Stats", body |-> "",
                    content_type |-> "stats_dashboard",
                    zones |-> StatsPayload2]).value,
      SlideContent([number |-> 1, title |-> "Acme", body |-> "",
                    zones |-> CasePayload,
                    extraction_notes |-> << "n" >>]).value }

\* Longest slide list passed directly to ContentDocument(...).
MaxDocSlides == 2

SlideLists == UNION { [1..n -> SomeSlides] : n \in 0..MaxDocSlides }

\* Files found behind a path: none, bytes that are no UTF-8 text, text that
\* is no JSON, JSON that is no object or no document, and documents, valid
\* and invalid.
PersistedFiles ==
    LET Json(data) ==
            [ exists |-> TRUE, utf8 |-> TRUE, json_ok |-> TRUE, data |-> data ]
        Object(v) == [ py |-> "dict", v |-> v ]
        Meta == [ source_file |-> "deck.pptx",
                  source_format |-> << ".", "P", "P", "T", "X" >> ]
        Document(slides) ==
            Json(Object([ version |-> "1.0", metadata |-> Meta,
                          slides |-> slides ]))
        Plain(n) == [ number |-> n, title |-> "T", body |-> "B" ]
        Stats(n, content_type) ==
            [ number |-> n, title |-> "S", body |-> "",
              content_type |-> content_type,
              zones |-> [ type |-> "stats_dashboard",
                          stats |-> << StatZone("85%", "Satisfaction") >> ] ]
    IN  { NoFile,
          [ exists |-> TRUE, utf8 |-> FALSE ],
          [ exists |-> TRUE, utf8 |-> TRUE, json_ok |-> FALSE ],
          Json([ py |-> "list", v |-> << >> ]),
          Json(Object([ bad |-> "data" ])),
          Document(<< >>),
          Document(<< Plain(1) >>),
          Document(<< Plain(1), Stats(2, "stats_dashboard") >>),
          Document(<< Plain(2), Plain(2) >>),
          Document(<< Plain(0) >>),
          Document(<< Plain(1), Stats(2, "quote") >>),
          Document(<< [ number |-> 1, body |-> "B" ] >>) }

----------------------------------------------------------------------------
(* The content model as a state machine.  The initial state holds the call *)
(* to be made with its arguments; every action is one call.                *)

\* The calls made on the content model.
ContentCalls ==
    LET
        SlideContentCalls ==
            { [ op |-> "SlideContent",
                kw |-> [ number |-> number, title |-> "X", body |-> "",
                         content_type |-> content_type, zones |-> zones ] ] :
              number \in Numbers, content_type \in ContentType \cup {"bogus"},
              zones \in ZonePayloads \cup {NoZones} }

        ContentDocumentCalls ==
            { [ op |-> "ContentDocument",
                kw |-> [ version |-> "1.0", metadata |-> SomeMetadata,
                         slides |-> slides ] ] : slides \in SlideLists }

        ConversionCalls ==
            { [ op |-> "slides_to_content_document", slides |-> slides,
                source_file |-> "input.pptx", source_format |-> source_format,
                now |-> now ] :
              slides \in RecordLists, source_format \in SourceFormats, now \in Clock }

        FileCalls ==
            { [ op |-> op, path |-> "content.json", file |-> file ] :
              op \in { "load_content_document", "validate_content_json" },
              file \in PersistedFiles }
    IN  SlideContentCalls \cup ContentDocumentCalls \cup ConversionCalls
        \cup FileCalls

\* The cookbook after the module's import, with no call under way.
CookbookIdle ==
    /\ COOKBOOK = build_recipes
    /\ kIn = [op |-> "none"]
    /\ kTree = [spTree |-> FALSE, children |-> << >>]
    /\ kRes = << >>

InitContent ==
    /\ cIn \in ContentCalls
    /\ cSlide = NotCalled
    /\ cDoc = NotCalled
    /\ cOut = NotCalled
    /\ cFile = Get(cIn, "file", NoFile)
    /\ cLoaded = NotCalled
    /\ cErrors = NotCalled
    /\ CookbookIdle
    /\ DiagnoseIdle
    /\ ReportIdle

\* SlideContent(number=..., title="X", body="", content_type=..., zones=...)
ConstructSlide ==
    /\ cIn.op = "SlideContent"
    /\ cSlide = NotCalled
    /\ cSlide' = SlideContent(cIn.kw)
    /\ UNCHANGED <<cIn, cDoc, cOut, cFile, cLoaded, cErrors>>
    /\ UNCHANGED <<cookbookVars, diagnoseVars, reportVars>>

\* ContentDocument(version="1.0", metadata=meta, slides=[...])
ConstructDocument ==
    /\ cIn.op = "ContentDocument"
    /\ cDoc = NotCalled
    /\ cDoc' = ContentDocument(cIn.kw)
    /\ UNCHANGED <<cIn, cSlide, cOut, cFile, cLoaded, cErrors>>
    /\ UNCHANGED <<cookbookVars, diagnoseVars, reportVars>>

\* doc = slides_to_content_document(slides, source_file, source_format)
CallSlidesToContentDocument ==
    /\ cIn.op = "slides_to_content_document"
    /\ cDoc = NotCalled
    /\ cDoc' = slides_to_content_document(cIn.slides, cIn.source_file,
                                          cIn.source_format, cIn.now)
    /\ UNCHANGED <<cIn, cSlide, cOut, cFile, cLoaded, cErrors>>
    /\ UNCHANGED <<cookbookVars, diagnoseVars, reportVars>>

\* result = content_document_to_slides(doc), on the document last built
CallContentDocumentToSlides ==
    /\ cDoc.ok
    /\ cOut = NotCalled
    /\ cOut' = Ok(content_document_to_slides(cDoc.value))
    /\ UNCHANGED <<cIn, cSlide, cDoc, cFile, cLoaded, cErrors>>
    /\ UNCHANGED <<cookbookVars, diagnoseVars, reportVars>>

\* save_content_document(doc, path), on the document last built
CallSaveContentDocument ==
    /\ cDoc.ok
    /\ cFile' = save_content_document(cDoc.value)
    /\ cFile' # cFile
    /\ UNCHANGED <<cIn, cSlide, cDoc, cOut, cLoaded, cErrors>>
    /\ UNCHANGED <<cookbookVars, diagnoseVars, reportVars>>

\* loaded = load_content_document(path)
CallLoadContentDocument ==
    /\ cIn.op # "validate_content_json"
    /\ IF cLoaded = NotCalled THEN TRUE ELSE cLoaded.file # cFile
    /\ cLoaded' = [ file |-> cFile, result |-> load_content_document(cFile) ]
    /\ UNCHANGED <<cIn, cSlide, cDoc, cOut, cFile, cErrors>>
    /\ UNCHANGED <<cookbookVars, diagnoseVars, reportVars>>

\* errors = validate_content_json(path); the import of jsonschema succeeds
\* or raises ImportError
CallValidateContentJson ==
    /\ cIn.op # "load_content_document"
    /\ IF cErrors = NotCalled THEN TRUE ELSE cErrors.file # cFile
    /\ \E jsonschema \in BOOLEAN :
           cErrors' = [ file |-> cFile, jsonschema |-> jsonschema,
                        result |-> validate_content_json(
                                       Get(cIn, "path", "content.json"),
                                       cFile, jsonschema) ]
    /\ UNCHANGED <<cIn, cSlide, cDoc, cOut, cFile, cLoaded>>
    /\ UNCHANGED <<cookbookVars, diagnoseVars, reportVars>>

NextContent ==
    \/ ConstructSlide
    \/ ConstructDocument
    \/ CallSlidesToContentDocument
    \/ CallContentDocumentToSlides
    \/ CallSaveContentDocument
    \/ CallLoadContentDocument
    \/ CallValidateContentJson

SpecContent == InitContent /\ [][NextContent]_vars

----------------------------------------------------------------------------
(* Properties of the content model *)

\* P's tag matches the classification C.
TagMatches(zones, content_type) == zones.type = content_type

\* C1: for every zone payload P and every classification C of the 15
\* content types, SlideContent(zones=P, content_type=C), its other fields
\* being valid, succeeds if and only if C is "auto" or P's tag matches C; a
\* mismatched pairing ends in a validation error and yields no SlideContent.
C1_ZonesMatchContentType ==
    ( /\ cIn.op = "SlideContent"
      /\ cSlide # NotCalled
      /\ cIn.kw.zones \in ZonePayloads
      /\ cIn.kw.content_type \in ContentType
      /\ cIn.kw.number >= 1 )
    => /\ cSlide.ok <=> ( \/ cIn.kw.content_type = "auto"
                          \/ TagMatches(cIn.kw.zones, cIn.kw.content_type) )
       /\ ~cSlide.ok => ( /\ cSlide.error = "ValidationError"
                          /\ "value" \notin DOMAIN cSlide )
       /\ cSlide.ok => ( /\ cSlide.value.zones = cIn.kw.zones
                         /\ cSlide.value.content_type = cIn.kw.content_type )

\* C1 witness: a CaseStudyZones payload with content_type stats_dashboard
\* was rejected.
C1_Witness ==
    /\ cIn.op = "SlideContent"
    /\ cIn.kw.zones = CasePayload
    /\ cIn.kw.content_type = "stats_dashboard"
    /\ cIn.kw.number = 1
    /\ cSlide = Err("ValidationError")

\* The image list of a legacy record, as (path, width, height, ext).
ImageFields(img) ==
    IF img.py = "str"
    THEN [path |-> img.v, width |-> 0, height |-> 0, ext |-> ""]
    ELSE [ path |-> Get(img.v, "path", ""), width |-> Get(img.v, "width", 0),
           height |-> Get(img.v, "height", 0), ext |-> Get(img.v, "ext", "") ]

ImagesOf(rec) ==
    LET imgs == Get(rec, "images", << >>)
    IN [i \in 1..Len(imgs) |-> ImageFields(imgs[i])]

\* What the round trip must keep of an original record, zone payload aside.
PreservedBasic(orig, back) ==
    /\ "number" \in DOMAIN orig => back.number = orig.number
    /\ back.title = Get(orig, "title", "")
    /\ back.body = Get(orig, "body", "")
    /\ ImagesOf(back) = ImagesOf(orig)
    /\ Get(back, "_extraction_notes", << >>) = Get(orig, "_extraction_notes", << >>)
    /\ "_content_type" \in DOMAIN orig =>
         /\ "_content_type" \in DOMAIN back
         /\ back["_content_type"] = orig["_content_type"]

PreservedZones(orig, back) ==
    "_zones" \in DOMAIN orig =>
        /\ "_zones" \in DOMAIN back
        /\ back["_zones"] = orig["_zones"]

\* C2: content_document_to_slides(slides_to_content_document(L)) returns
\* one record per original record, in order, that keeps number, title,
\* body, image list, extraction notes and, when the original has them,
\* _content_type and _zones.
C2_RoundTripPreserves ==
    (cIn.op = "slides_to_content_document" /\ cOut.ok)
    => /\ Len(cOut.value) = Len(cIn.slides)
       /\ \A i \in 1..Len(cIn.slides) :
            /\ PreservedBasic(cIn.slides[i], cOut.value[i])
            /\ PreservedZones(cIn.slides[i], cOut.value[i])

\* The round trip keeps everything C2 names except the zone payload.
C2_RoundTripPreservesBasic ==
    (cIn.op = "slides_to_content_document" /\ cOut.ok)
    => /\ Len(cOut.value) = Len(cIn.slides)
       /\ \A i \in 1..Len(cIn.slides) :
            PreservedBasic(cIn.slides[i], cOut.value[i])

\* C6: a ContentDocument with zero slides is rejected, directly and through
\* slides_to_content_document([]); with exactly one valid slide it is built.
C6_SlideCountBoundary ==
    /\ (cIn.op = "ContentDocument" /\ cDoc # NotCalled) =>
         /\ Len(cIn.kw.slides) = 0 => cDoc = Err("ValidationError")
         /\ Len(cIn.kw.slides) = 1 =>
              (cDoc.ok /\ cDoc.value.slides = cIn.kw.slides)
    /\ (cIn.op = "slides_to_content_document" /\ cDoc # NotCalled) =>
         /\ Len(cIn.slides) = 0 => cDoc = Err("ValidationError")
         /\ (Len(cIn.slides) = 1 /\ convert_slide(cIn.slides[1], << >>).ok) =>
              (cDoc.ok /\ Len(cDoc.value.slides) = 1)

\* C6 witness: ContentDocument(slides=[]) was rejected.
C6_Witness ==
    /\ cIn.op = "ContentDocument"
    /\ cIn.kw.slides = << >>
    /\ cDoc = Err("ValidationError")

\* The record's _zones entry holds the payload's tag and all its fields.
HoldsPayload(d, zones) ==
    IF zones.cls = "StatsDashboardZones"
    THEN /\ DOMAIN d = { "type", "stats" }
         /\ d.type = "stats_dashboard"
         /\ Len(d.stats) = Len(zones.stats)
         /\ \A j \in 1..Len(zones.stats) :
                d.stats[j] = [ number |-> zones.stats[j].number,
                               label |-> zones.stats[j].label ]
    ELSE /\ zones.cls = "CaseStudyZones"
         /\ DOMAIN d = { "type", "company_name", "description", "bullets",
                         "quote", "attribution" }
         /\ d.type = "case_study_full"
         /\ d.company_name = zones.company_name
         /\ d.description = zones.description
         /\ d.bullets = zones.bullets
         /\ d.quote = zones.quote
         /\ d.attribution = zones.attribution

\* C14: content_document_to_slides returns one record per slide of the
\* document, in order, in which _content_type is present if and only if the
\* slide's classification is not "auto", and is then its name; _zones is
\* present if and only if the slide has a zone payload, and then holds the
\* tag of the payload's variant with all its fields (the number/label pairs
\* in order, or the five case-study fields); and _extraction_notes holds
\* the slide's notes whenever there are any.
C14_ReservedKeys ==
    (cDoc.ok /\ cOut.ok) =>
        /\ Len(cOut.value) = Len(cDoc.value.slides)
        /\ \A i \in 1..Len(cDoc.value.slides) :
               LET sc == cDoc.value.slides[i]
                   rec == cOut.value[i]
               IN  /\ "_content_type" \in DOMAIN rec
                          <=> sc.content_type # "auto"
                   /\ "_content_type" \in DOMAIN rec =>
                          rec["_content_type"] = sc.content_type
                   /\ "_zones" \in DOMAIN rec <=> sc.zones # NoZones
                   /\ "_zones" \in DOMAIN rec =>
                          HoldsPayload(rec["_zones"], sc.zones)
                   /\ sc.extraction_notes # << >> =>
                          /\ "_extraction_notes" \in DOMAIN rec
                          /\ rec["_extraction_notes"] = sc.extraction_notes

\* A document of two slides was converted: one classified stats_dashboard
\* with a payload of two statistics, one left "auto" with a case-study
\* payload and a note.
C14_Witness ==
    /\ cIn.op = "ContentDocument"
    /\ cDoc.ok
    /\ cOut.ok
    /\ Len(cOut.value) = 2
    /\ cDoc.value.slides[1].content_type = "stats_dashboard"
    /\ Len(cDoc.value.slides[1].zones.stats) = 2
    /\ cOut.value[1]["_content_type"] = "stats_dashboard"
    /\ Len(cOut.value[1]["_zones"].stats) = 2
    /\ cDoc.value.slides[2].content_type = "auto"
    /\ cDoc.value.slides[2].zones.cls = "CaseStudyZones"
    /\ "_content_type" \notin DOMAIN cOut.value[2]
    /\ cOut.value[2]["_zones"].type = "case_study_full"
    /\ cOut.value[2]["_extraction_notes"] = << "n" >>

\* The documents that were successfully constructed: directly or by
\* slides_to_content_document, and by load_content_document.
ConstructedDocuments ==
    (IF cDoc.ok THEN { cDoc.value } ELSE {})
    \cup (IF cLoaded # NotCalled /\ cLoaded.result.ok
          THEN { cLoaded.result.value } ELSE {})

\* C15: in every ContentDocument that was successfully constructed,
\* directly, through slides_to_content_document or through
\* load_content_document, every slide number is at least 1 and no two
\* slides have the same number.
C15_NumbersValidAndUnique ==
    \A doc \in ConstructedDocuments :
        /\ \A i \in 1..Len(doc.slides) : doc.slides[i].number >= 1
        /\ \A i, j \in 1..Len(doc.slides) :
               i # j => doc.slides[i].number # doc.slides[j].number

\* What does hold: every slide number of a constructed document is at
\* least 1.
C15_NumbersAtLeastOne ==
    \A doc \in ConstructedDocuments :
        \A i \in 1..Len(doc.slides) : doc.slides[i].number >= 1

\* The file holds a valid persisted document: a JSON object with metadata
\* naming the source file and format and with at least one slide, every
\* slide having a number of at least 1, a title, a body, a known
\* classification and, if any, a zone payload that fits it.
ValidPersisted(file) ==
    /\ file.exists
    /\ file.utf8
    /\ file.json_ok
    /\ file.data.py = "dict"
    /\ { "metadata", "slides" } \subseteq DOMAIN file.data.v
    /\ { "source_file", "source_format" } \subseteq DOMAIN file.data.v.metadata
    /\ Len(file.data.v.slides) >= 1
    /\ \A i \in 1..Len(file.data.v.slides) :
           LET d == file.data.v.slides[i]
               content_type == Get(d, "content_type", "auto")
           IN  /\ { "number", "title", "body" } \subseteq DOMAIN d
               /\ d.number >= 1
               /\ content_type \in ContentType
               /\ ("zones" \in DOMAIN d /\ content_type # "auto") =>
                      d.zones.type = content_type

\* The messages that tell of a missing file and of text that is no JSON.
IsNotFound(msg) == msg[1] = "File not found: "

IsInvalidJson(msg) == msg[1] = "Invalid JSON: "

\* C20: validate_content_json returns a list of messages, which is empty if
\* and only if the persisted document is valid.  A missing file yields
\* exactly one message, saying the file was not found; a file that cannot
\* be parsed yields exactly one message, saying the JSON is invalid; a file
\* that parses and violates the schema or the model yields a non-empty list
\* none of whose messages is either of those two.
C20_ValidateDistinguishes ==
    cErrors # NotCalled =>
        LET file == cErrors.file
            res == cErrors.result
        IN  /\ res.ok
            /\ res.value = << >> <=> ValidPersisted(file)
            /\ ~file.exists =>
                   Len(res.value) = 1 /\ IsNotFound(res.value[1])
            /\ (file.exists /\ (~file.utf8 \/ ~file.json_ok)) =>
                   Len(res.value) = 1 /\ IsInvalidJson(res.value[1])
            /\ (file.exists /\ file.utf8 /\ file.json_ok
                /\ ~ValidPersisted(file)) =>
                   /\ Len(res.value) >= 1
                   /\ \A k \in 1..Len(res.value) :
                          ~IsNotFound(res.value[k])
                          /\ ~IsInvalidJson(res.value[k])

\* What does hold: the call ends in an exception exactly when the file
\* holds bytes that are no UTF-8 text; for every other file the list is
\* empty if and only if the document is valid and the three kinds of
\* failure are told apart as C20 says.
C20_DistinguishesOnText ==
    cErrors # NotCalled =>
        LET file == cErrors.file
            res == cErrors.result
        IN  /\ res.ok <=> ~(file.exists /\ ~file.utf8)
            /\ res.ok =>
                   /\ res.value = << >> <=> ValidPersisted(file)
                   /\ ~file.exists =>
                          Len(res.value) = 1 /\ IsNotFound(res.value[1])
                   /\ (file.exists /\ ~file.json_ok) =>
                          Len(res.value) = 1 /\ IsInvalidJson(res.value[1])
                   /\ (file.exists /\ file.json_ok /\ ~ValidPersisted(file)) =>
                          /\ Len(res.value) >= 1
                          /\ \A k \in 1..Len(res.value) :
                                 ~IsNotFound(res.value[k])
                                 /\ ~IsInvalidJson(res.value[k])

\* C21: saving then loading is a round trip: load_content_document applied
\* to the file save_content_document wrote for a valid document returns a
\* document equal to it field for field, and the file holds the key zones
\* for exactly the slides that have a zone payload, never with a null.
C21_SaveLoadRoundTrip ==
    (cDoc.ok /\ cFile = save_content_document(cDoc.value)
       /\ cLoaded # NotCalled /\ cLoaded.file = cFile)
    => LET doc    == cDoc.value
           slides == cFile.data.v.slides
       IN /\ cFile.exists /\ cFile.utf8 /\ cFile.json_ok
          /\ cLoaded.result.ok
          /\ cLoaded.result.value = doc
          /\ cLoaded.result.value.version = doc.version
          /\ cLoaded.result.value.metadata = doc.metadata
          /\ Len(slides) = Len(doc.slides)
          /\ \A i \in 1..Len(slides) :
               /\ cLoaded.result.value.slides[i] = doc.slides[i]
               /\ ("zones" \in DOMAIN slides[i]) <=> (doc.slides[i].zones # NoZones)
               /\ ("zones" \in DOMAIN slides[i])
                    => (slides[i].zones # NoZones
                        /\ slides[i].zones.type = doc.slides[i].zones.type)

\* C21 witness: a document of two slides, one with a dashboard payload and
\* its classification, one with no payload, was saved and loaded back.
C21_Witness ==
    /\ cDoc.ok
    /\ cFile = save_content_document(cDoc.value)
    /\ cLoaded # NotCalled
    /\ cLoaded.file = cFile
    /\ Len(cDoc.value.slides) = 2
    /\ cDoc.value.slides[1].zones = NoZones
    /\ cDoc.value.slides[2].zones = StatsPayload2
    /\ cDoc.value.slides[2].content_type = "stats_dashboard"
    /\ cLoaded.result = Ok(cDoc.value)
    /\ "zones" \notin DOMAIN cFile.data.v.slides[1]

\* The upper-case letters of the formats drawn, and their lower-case forms.
UpperLetters == << "P", "T", "X", "D", "F", "M" >>

LowerLetters == << "p", "t", "x", "d", "f", "m" >>

Lowered(c) ==
    IF \E k \in 1..Len(UpperLetters) : UpperLetters[k] = c
    THEN LowerLetters[CHOOSE k \in 1..Len(UpperLetters) : UpperLetters[k] = c]
    ELSE c

\* given, lower-cased and without its first n characters.
LoweredFrom(given, n) ==
    [ i \in 1..(Len(given) - n) |-> Lowered(given[n + i]) ]

\* The number of dots given begins with.
LeadingDots(given) ==
    CHOOSE n \in 0..Len(given) :
        /\ \A i \in 1..n : given[i] = "."
        /\ n < Len(given) => given[n + 1] # "."

\* The metadata constructed so far, each with the source_format it was
\* constructed from: by a conversion, and by loading a file.
ConstructedMetadata ==
    (IF cIn.op = "slides_to_content_document" /\ cDoc.ok
     THEN { [ given |-> cIn.source_format, stored |-> cDoc.value.metadata.source_format ] }
     ELSE {})
    \cup
    (IF cLoaded = NotCalled THEN {}
     ELSE IF ~cLoaded.result.ok THEN {}
     ELSE { [ given  |-> cLoaded.file.data.v.metadata.source_format,
              stored |-> cLoaded.result.value.metadata.source_format ] })

\* C22 as stated: the stored source_format has no upper-case letter and no
\* leading dot, equals the input lower-cased with one leading dot removed,
\* and is left unchanged by a second normalisation.
C22_OneLeadingDotRemoved ==
    \A md \in ConstructedMetadata :
        /\ \A i \in 1..Len(md.stored) :
             \A k \in 1..Len(UpperLetters) : md.stored[i] # UpperLetters[k]
        /\ md.stored = << >> \/ md.stored[1] # "."
        /\ md.stored = LoweredFrom(md.given,
                          IF md.given # << >> /\ md.given[1] = "." THEN 1 ELSE 0)
        /\ normalize_format(md.stored) = md.stored

\* C22: the stored source_format of every constructed ContentMetadata has no
\* upper-case letter and no leading dot, equals the input lower-cased with
\* all its leading dots removed, and is left unchanged by a second
\* normalisation.
C22_FormatNormalised ==
    \A md \in ConstructedMetadata :
        /\ \A i \in 1..Len(md.stored) :
             \A k \in 1..Len(UpperLetters) : md.stored[i] # UpperLetters[k]
        /\ md.stored = << >> \/ md.stored[1] # "."
        /\ md.stored = LoweredFrom(md.given, LeadingDots(md.given))
        /\ normalize_format(md.stored) = md.stored

\* C22 witness: a conversion given the format "..Md" stored "md".
C22_Witness ==
    /\ cIn.op = "slides_to_content_document"
    /\ cIn.source_format = << ".", ".", "M", "d" >>
    /\ cDoc.ok
    /\ cDoc.value.metadata.source_format = << "m", "d" >>

\* C28: a conversion that returns a document gives it one slide per record,
\* in order; a record without number gets its position in the list, from 1,
\* a missing title or body the empty string, a missing _content_type the
\* classification auto, and an image given as a path string becomes an
\* image of that path with width and height 0.
C28_ConversionDefaults ==
    (cIn.op = "slides_to_content_document" /\ cDoc.ok)
    => /\ Len(cDoc.value.slides) = Len(cIn.slides)
       /\ \A i \in 1..Len(cIn.slides) :
            LET rec == cIn.slides[i]
                sc  == cDoc.value.slides[i]
                imgs == Get(rec, "images", << >>)
            IN  /\ sc.number = (IF "number" \in DOMAIN rec THEN rec.number ELSE i)
                /\ sc.title = (IF "title" \in DOMAIN rec THEN rec.title ELSE "")
                /\ sc.body = (IF "body" \in DOMAIN rec THEN rec.body ELSE "")
                /\ sc.content_type
                     = (IF "_content_type" \in DOMAIN rec
                        THEN rec["_content_type"] ELSE "auto")
                /\ (\A k \in 1..Len(imgs) : imgs[k].py \in { "str", "dict" })
                   => /\ Len(sc.images) = Len(imgs)
                      /\ \A k \in 1..Len(imgs) :
                           imgs[k].py = "str" =>
                             /\ sc.images[k].path = imgs[k].v
                             /\ sc.images[k].width = 0
                             /\ sc.images[k].height = 0

\* C28 witness: a record with a path-string image, then a record that has
\* only a title, were converted: the second slide has the number 2, an
\* empty body and the classification auto, the first an image "a.png" of
\* width 0.
C28_Witness ==
    /\ cIn.op = "slides_to_content_document"
    /\ cDoc.ok
    /\ Len(cIn.slides) = 2
    /\ cIn.slides[2] = [ title |-> "No number" ]
    /\ cDoc.value.slides[2].number = 2
    /\ cDoc.value.slides[2].body = ""
    /\ cDoc.value.slides[2].content_type = "auto"
    /\ Len(cDoc.value.slides[1].images) = 2
    /\ cDoc.value.slides[1].images[1].path = "a.png"
    /\ cDoc.value.slides[1].images[1].width = 0

\* A legacy record that SlideContent rejects whatever precedes it: a number
\* below 1, or a _content_type that is no ContentType.
InvalidRecord(rec) ==
    \/ "number" \in DOMAIN rec /\ rec.number < 1
    \/ "_content_type" \in DOMAIN rec /\ rec["_content_type"] \notin ContentType

\* A legacy record without one of the strings SlideContent requires.
LacksRequiredString(rec) ==
    "title" \notin DOMAIN rec \/ "body" \notin DOMAIN rec

\* What a call of slides_to_content_document that raised leaves behind:
\* the exception, and no document to convert back or to save.
RaisedValidationError ==
    /\ ~cDoc.ok
    /\ cDoc.error = "ValidationError"
    /\ cOut = NotCalled
    /\ cFile = NoFile

\* C30 as stated: a list with a record that has a number below 1, an
\* unknown _content_type or no title or body makes
\* slides_to_content_document raise.  A record without title or body is
\* converted with the empty string in its place.
C30_AnyInvalidRecordRaises ==
    (/\ cIn.op = "slides_to_content_document"
     /\ cDoc # NotCalled
     /\ \E i \in 1..Len(cIn.slides) :
          InvalidRecord(cIn.slides[i]) \/ LacksRequiredString(cIn.slides[i]))
    => RaisedValidationError

\* C30: a list with a record that has a number below 1 or an unknown
\* _content_type makes slides_to_content_document raise ValidationError
\* and return no document, wherever the record stands in the list; a
\* document that is returned has one slide for every record, and a record
\* that only lacks title or body does not make the call raise.
C30_NoPartialDocument ==
    (cIn.op = "slides_to_content_document" /\ cDoc # NotCalled)
    => /\ (\E i \in 1..Len(cIn.slides) : InvalidRecord(cIn.slides[i]))
          => RaisedValidationError
       /\ cDoc.ok => /\ Len(cDoc.value.slides) = Len(cIn.slides)
                     /\ \A i \in 1..Len(cIn.slides) :
                          ~InvalidRecord(cIn.slides[i])
       /\ (/\ cIn.slides # << >>
           /\ \A i \in 1..Len(cIn.slides) : ~InvalidRecord(cIn.slides[i]))
          => cDoc.ok

\* C30 witness: the conversion of a valid record followed by a record with
\* the number 0 raised.
C30_Witness ==
    /\ cIn.op = "slides_to_content_document"
    /\ Len(cIn.slides) = 2
    /\ convert_slide(cIn.slides[1], << >>).ok
    /\ cIn.slides[2].title = "Zero"
    /\ cIn.slides[2].number = 0
    /\ cDoc = Err("ValidationError")

\* The conversion of a record with an unknown _content_type followed by a
\* valid record raised.
C30_WitnessFollowed ==
    /\ cIn.op = "slides_to_content_document"
    /\ Len(cIn.slides) = 2
    /\ cIn.slides[1].title = "Bogus"
    /\ ~InvalidRecord(cIn.slides[2])
    /\ cDoc = Err("ValidationError")

----------------------------------------------------------------------------
(* Inputs of the cookbook's calls *)

RegistryRecipes == { build_recipes[i].value : i \in 1..Len(build_recipes) }

\* The recipes of the registry, and recipes a caller builds itself: no
\* title spec, and no spec at all.
Recipes ==
    LET
        CustomRecipes ==
            { LayoutRecipe([ name |-> "custom_body_only",
                             body |-> TextBoxSpec([ name |-> "body",
                                         position |-> BoxPosition_from_inches(5, 5, 40, 10) ]),
                             extra_text_boxes |->
                                << TextBoxSpec([ name |-> "note", bold |-> TRUE, italic |-> TRUE,
                                         position |-> BoxPosition_from_inches(5, 20, 40, 10) ]) >> ]),
              LayoutRecipe([ name |-> "custom_empty" ]) }
    IN  RegistryRecipes \cup CustomRecipes

Titles == { "", " Big  Statement! " }

Bodies == { "", "Supporting text" }

\* Elements found below the spTree of an existing slide.
ExistingElements ==
    { GroupNode,
      [tag |-> "sp", cNvPr |-> [id |-> "7", name |-> "Title"], t |-> "Title"],
      [tag |-> "sp", cNvPr |-> [id |-> "abc", name |-> "Body"], t |-> "Body"],
      [tag |-> "pic", cNvPr |-> [name |-> "Picture"]],
      [tag |-> "sp", cNvPr |-> [id |-> "-1", name |-> "Odd"], t |-> ""] }

\* Most elements below the spTree of an input slide.
MaxExisting == 2

NoSpTree == [spTree |-> FALSE, children |-> << >>]

InputTrees ==
    { NoSpTree }
    \cup { [spTree |-> TRUE, children |-> c] :
             c \in UNION { [1..n -> ExistingElements] : n \in 0..MaxExisting } }
    \cup { build_slide_from_recipe(dict_get(build_recipes, "feature_default", NoRecipe), "Test Title",
                                   "Test body content"),
           build_slide_from_recipe(dict_get(build_recipes, "two_column", NoRecipe), "", "") }

RecipeNames ==
    { build_recipes[i].key : i \in 1..Len(build_recipes) }
    \cup { "nonexistent_layout", "", "Stats_Dashboard" }

TextBoxSpecs ==
    LET
        SpecsOf(r) ==
            (IF r.title # NoSpec THEN {r.title} ELSE {})
            \cup (IF r.body # NoSpec THEN {r.body} ELSE {})
            \cup { r.extra_text_boxes[i] : i \in 1..Len(r.extra_text_boxes) }
    IN  UNION { SpecsOf(r) : r \in Recipes }

ShapeIds == { 2, 10, 42 }

\* Calls of list_recipes() made one after the other.
MaxListCalls == 2

----------------------------------------------------------------------------
(* The cookbook as a state machine.  The initial state holds the call to   *)
(* be made with its arguments; every action is one call.                   *)

\* The calls made on the cookbook.
CookbookCalls ==
    LET
        ApplyCalls ==
            { [ op |-> "apply_recipe_to_slide", slide_root |-> t, recipe |-> r,
                title |-> title, body |-> body ] :
              t \in InputTrees, r \in Recipes, title \in Titles, body \in Bodies }

        BuildCalls ==
            { [ op |-> "build_slide_from_recipe", recipe |-> r, title |-> title,
                body |-> body ] : r \in Recipes, title \in Titles, body \in Bodies }

        TextBoxCalls ==
            { [ op |-> "build_text_box_xml", spec |-> sp, shape_id |-> id ] :
              sp \in TextBoxSpecs, id \in ShapeIds }

        GetRecipeCalls == { [ op |-> "get_recipe", name |-> n ] : n \in RecipeNames }

        ListRecipesCalls == { [ op |-> "list_recipes" ] }
    IN  ApplyCalls \cup BuildCalls \cup TextBoxCalls
        \cup GetRecipeCalls \cup ListRecipesCalls

\* The content model with no call under way.
ContentIdle ==
    /\ cIn = [op |-> "none"]
    /\ cSlide = NotCalled
    /\ cDoc = NotCalled
    /\ cOut = NotCalled
    /\ cFile = NoFile
    /\ cLoaded = NotCalled
    /\ cErrors = NotCalled

InitCookbook ==
    /\ COOKBOOK = build_recipes
    /\ kIn \in CookbookCalls
    /\ kTree = IF kIn.op = "apply_recipe_to_slide" THEN kIn.slide_root
               ELSE NoSpTree
    /\ kRes = << >>
    /\ ContentIdle
    /\ DiagnoseIdle
    /\ ReportIdle

\* apply_recipe_to_slide(slide_root, recipe, title, body): mutates the tree
CallApplyRecipe ==
    /\ kIn.op = "apply_recipe_to_slide"
    /\ kRes = << >>
    /\ kTree' = apply_recipe_to_slide(kTree, kIn.recipe, kIn.title, kIn.body)
    /\ kRes' = << Ok("None") >>
    /\ UNCHANGED <<COOKBOOK, kIn>>
    /\ UNCHANGED <<contentVars, diagnoseVars, reportVars>>

\* sld = build_slide_from_recipe(recipe, title, body)
CallBuildSlide ==
    /\ kIn.op = "build_slide_from_recipe"
    /\ kRes = << >>
    /\ kTree' = build_slide_from_recipe(kIn.recipe, kIn.title, kIn.body)
    /\ kRes' = << Ok("sld") >>
    /\ UNCHANGED <<COOKBOOK, kIn>>
    /\ UNCHANGED <<contentVars, diagnoseVars, reportVars>>

\* sp = build_text_box_xml(spec, shape_id)
CallBuildTextBox ==
    /\ kIn.op = "build_text_box_xml"
    /\ kRes = << >>
    /\ kRes' = << Ok(build_text_box_xml(kIn.spec, kIn.shape_id)) >>
    /\ UNCHANGED <<COOKBOOK, kIn, kTree>>
    /\ UNCHANGED <<contentVars, diagnoseVars, reportVars>>

\* get_recipe written as COOKBOOK.pop(name, None): the lookup removes the
\* entry it returns.
CallGetRecipe_popping ==
    /\ kIn.op = "get_recipe"
    /\ kRes = << >>
    /\ kRes' = << get_recipe(kIn.name) >>
    /\ COOKBOOK' = SelectSeq(COOKBOOK, LAMBDA e : e.key # kIn.name)
    /\ UNCHANGED <<kIn, kTree>>
    /\ UNCHANGED <<contentVars, diagnoseVars, reportVars>>

\* recipe = get_recipe(name)
CallGetRecipe ==
    /\ kIn.op = "get_recipe"
    /\ kRes = << >>
    /\ kRes' = << get_recipe(kIn.name) >>
    /\ UNCHANGED <<COOKBOOK, kIn, kTree>>
    /\ UNCHANGED <<contentVars, diagnoseVars, reportVars>>

\* names = list_recipes(), called again and again
CallListRecipes ==
    /\ kIn.op = "list_recipes"
    /\ Len(kRes) < MaxListCalls
    /\ kRes' = Append(kRes, list_recipes)
    /\ UNCHANGED <<COOKBOOK, kIn, kTree>>
    /\ UNCHANGED <<contentVars, diagnoseVars, reportVars>>

NextCookbook ==
    \/ CallApplyRecipe
    \/ CallBuildSlide
    \/ CallBuildTextBox
    \/ CallGetRecipe
    \/ CallListRecipes

SpecCookbook == InitCookbook /\ [][NextCookbook]_vars

----------------------------------------------------------------------------
(* Properties of the cookbook *)

\* The shapes a call of apply_recipe_to_slide appended to the input tree.
AddedShapes ==
    SubSeq(kTree.children, Len(kIn.slide_root.children) + 1, Len(kTree.children))

\* The content shapes (p:sp) below the spTree of the tree that was built.
ContentShapes == SelectSeq(kTree.children, LAMBDA e : e.tag = "sp")

HasNumericId(e) ==
    /\ "cNvPr" \in DOMAIN e
    /\ "id" \in DOMAIN e.cNvPr
    /\ py_int(e.cNvPr.id).ok

\* C4: every shape id apply_recipe_to_slide assigns is strictly greater
\* than every shape id present in the input tree, whose elements it leaves
\* as they were.
C4_AssignedIdsAboveMax ==
    (kIn.op = "apply_recipe_to_slide" /\ kRes # << >>)
    => LET old == kIn.slide_root.children IN
       /\ SubSeq(kTree.children, 1, Len(old)) = old
       /\ \A j \in 1..Len(AddedShapes) :
            /\ HasNumericId(AddedShapes[j])
            /\ \A i \in 1..Len(old) :
                 HasNumericId(old[i]) =>
                   py_int(AddedShapes[j].cNvPr.id).value
                     > py_int(old[i].cNvPr.id).value

\* C4 witness: shapes were added to a tree that held the id 7 followed by
\* a smaller id.
C4_Witness ==
    /\ kIn.op = "apply_recipe_to_slide"
    /\ kRes # << >>
    /\ Len(kIn.slide_root.children) = 2
    /\ kIn.slide_root.children[1].cNvPr = [id |-> "7", name |-> "Title"]
    /\ kIn.slide_root.children[2] = GroupNode
    /\ Len(AddedShapes) >= 2
    /\ AddedShapes[1].cNvPr.id = "8"

\* The boxes the placement rule asks for, as (name, run text) in order.
ExpectedBoxes(recipe, title, body) ==
    (IF recipe.title # NoSpec /\ title # ""
     THEN << [name |-> recipe.title.name, text |-> title] >> ELSE << >>)
    \o (IF recipe.body # NoSpec /\ body # ""
        THEN << [name |-> recipe.body.name, text |-> body] >> ELSE << >>)
    \o [ i \in 1..Len(recipe.extra_text_boxes) |->
           [name |-> recipe.extra_text_boxes[i].name, text |-> ""] ]

NameAndText(shapes) ==
    [i \in 1..Len(shapes) |-> [name |-> shapes[i].cNvPr.name, text |-> shapes[i].t]]

\* C7: apply_recipe_to_slide and build_slide_from_recipe place, in this
\* order, a title box iff the recipe has a title spec and the title is
\* non-empty, a body box iff it has a body spec and the body is non-empty,
\* then one box per extra spec; title and body boxes hold the given text
\* verbatim and every extra box holds empty text.
C7_PlacementRule ==
    /\ (kIn.op = "apply_recipe_to_slide" /\ kRes # << >> /\ kIn.slide_root.spTree)
       => NameAndText(AddedShapes)
            = ExpectedBoxes(kIn.recipe, kIn.title, kIn.body)
    /\ (kIn.op = "build_slide_from_recipe" /\ kRes # << >>)
       => NameAndText(ContentShapes)
            = ExpectedBoxes(kIn.recipe, kIn.title, kIn.body)

\* C7 witness: case_study_full was applied with a title and a body, which
\* gave the title box, the body box and the three extra boxes.
C7_Witness ==
    /\ kIn.op = "apply_recipe_to_slide"
    /\ kRes # << >>
    /\ kIn.recipe = dict_get(build_recipes, "case_study_full", NoRecipe)
    /\ kIn.title = " Big  Statement! "
    /\ kIn.body = "Supporting text"
    /\ Len(AddedShapes) = 5
    /\ AddedShapes[1].t = " Big  Statement! "
    /\ AddedShapes[5].cNvPr.name = "Attribution"

\* C8 as claimed: for every recipe of the registry,
\* build_slide_from_recipe(recipe, "", "") yields zero content shapes.
C8_EmptyTextNoContentShapes ==
    ( /\ kIn.op = "build_slide_from_recipe"
      /\ kRes # << >>
      /\ kIn.recipe \in RegistryRecipes
      /\ kIn.title = ""
      /\ kIn.body = "" )
    => Len(ContentShapes) = 0

\* C8 as amended: build_slide_from_recipe(recipe, "", "") yields exactly
\* one empty-text shape per extra box of the recipe after the group node,
\* hence zero content shapes for a recipe that has no extra boxes.
C8_EmptyTextOnlyExtraShapes ==
    ( /\ kIn.op = "build_slide_from_recipe"
      /\ kRes # << >>
      /\ kIn.recipe \in RegistryRecipes
      /\ kIn.title = ""
      /\ kIn.body = "" )
    => /\ kTree.children[1] = GroupNode
       /\ Len(ContentShapes) = Len(kIn.recipe.extra_text_boxes)
       /\ \A i \in 1..Len(ContentShapes) :
            /\ ContentShapes[i].t = ""
            /\ ContentShapes[i].cNvPr.name = kIn.recipe.extra_text_boxes[i].name
       /\ kIn.recipe.extra_text_boxes = << >> => Len(ContentShapes) = 0

\* C8 witness: feature_default, which has no extra boxes, was built with
\* empty text and holds no content shape.
C8_Witness ==
    /\ kIn.op = "build_slide_from_recipe"
    /\ kRes # << >>
    /\ kIn.recipe = dict_get(build_recipes, "feature_default", NoRecipe)
    /\ kIn.title = ""
    /\ kIn.body = ""
    /\ Len(ContentShapes) = 0
    /\ Len(kTree.children) = 2

RegisteredNames ==
    { "title_opening", "feature_default", "content_image_left",
      "content_image_right", "statement_center", "stat_default",
      "stats_dashboard", "quote_default", "two_column", "section_divider",
      "case_study_full", "closing_cta", "hero_photo" }

\* C9: get_recipe(name) returns the recipe named name for each of the 13
\* registered names and None, without raising, for any other name;
\* list_recipes() returns the 13 names, each once, in the same order on
\* every call.
C9_RegistryLookup ==
    /\ (kIn.op = "get_recipe" /\ kRes # << >>)
       => /\ kRes[1].ok
          /\ IF kIn.name \in RegisteredNames
             THEN kRes[1].value # NoRecipe /\ kRes[1].value.name = kIn.name
             ELSE kRes[1].value = NoRecipe
    /\ kIn.op = "list_recipes"
       => \A i \in 1..Len(kRes) :
            /\ kRes[i].ok
            /\ Len(kRes[i].value) = Cardinality(RegisteredNames)
            /\ { kRes[i].value[j] : j \in 1..Len(kRes[i].value) } = RegisteredNames
            /\ kRes[i].value = kRes[1].value

\* C9 witness: get_recipe("nonexistent_layout") returned None.
C9_Witness ==
    /\ kIn.op = "get_recipe"
    /\ kIn.name = "nonexistent_layout"
    /\ kRes = << Ok(NoRecipe) >>

\* C10: stats_dashboard has exactly 12 extra boxes Stat1_Number,
\* Stat1_Label, ..., Stat6_Number, Stat6_Label, stat N = 3*row + column + 1
\* lying in row (N-1) div 3 and column (N-1) mod 3 of the 2 x 3 grid, so
\* stats 1..3 share the first row offset and stats N and N+3 a column offset.
C10_StatsDashboardGrid ==
    (kIn.op = "get_recipe" /\ kIn.name = "stats_dashboard" /\ kRes # << >>)
    => LET e == kRes[1].value.extra_text_boxes
           colX == << 457200, 3200400, 5943600 >>
           rowY == << 1371600, 3840480 >>
       IN /\ Len(e) = 12
          /\ [i \in 1..Len(e) |-> e[i].name]
               = << "Stat1_Number", "Stat1_Label", "Stat2_Number", "Stat2_Label",
                    "Stat3_Number", "Stat3_Label", "Stat4_Number", "Stat4_Label",
                    "Stat5_Number", "Stat5_Label", "Stat6_Number", "Stat6_Label" >>
          /\ \A row \in 0..1, col \in 0..2 :
               LET N == 3 * row + col + 1 IN
               /\ e[2 * N - 1].position.x = colX[col + 1]
               /\ e[2 * N - 1].position.y = rowY[row + 1]
               /\ e[2 * N].position.x = colX[col + 1]
               /\ e[2 * N].position.y > e[2 * N - 1].position.y
          /\ \A N \in 1..3 :
               /\ e[2 * N - 1].position.y = e[1].position.y
               /\ e[2 * N - 1].position.x = e[2 * (N + 3) - 1].position.x

\* C10 witness: get_recipe("stats_dashboard") returned a recipe whose last
\* extra box is Stat6_Label.
C10_Witness ==
    /\ kIn.op = "get_recipe"
    /\ kIn.name = "stats_dashboard"
    /\ kRes # << >>
    /\ kRes[1].value.extra_text_boxes[12].name = "Stat6_Label"

\* C16: the registry is never mutated: in every state, before and after any
\* call of get_recipe, list_recipes, build_text_box_xml,
\* apply_recipe_to_slide or build_slide_from_recipe, it maps the same 13
\* names, in the order of construction, to recipes whose title, body, extra
\* boxes, image boxes and background are those it was constructed with.
C16_RegistryNeverMutated ==
    /\ Len(COOKBOOK) = 13
    /\ dict_keys(COOKBOOK) = dict_keys(build_recipes)
    /\ { COOKBOOK[i].key : i \in 1..Len(COOKBOOK) } = RegisteredNames
    /\ \A n \in RegisteredNames :
         LET now  == dict_get(COOKBOOK, n, NoRecipe)
             then == dict_get(build_recipes, n, NoRecipe)
         IN /\ now # NoRecipe
            /\ now.name = n
            /\ now.title = then.title
            /\ now.body = then.body
            /\ now.extra_text_boxes = then.extra_text_boxes
            /\ now.image_boxes = then.image_boxes
            /\ now.background = then.background

\* C16 witness: get_recipe("hero_photo") has returned the recipe, and the
\* registry still holds that recipe under that name.
C16_Witness ==
    /\ kIn.op = "get_recipe"
    /\ kIn.name = "hero_photo"
    /\ kRes # << >>
    /\ kRes[1].value # NoRecipe
    /\ dict_get(COOKBOOK, "hero_photo", NoRecipe) = kRes[1].value

\* C17: when the input tree has no p:cSld/p:spTree container,
\* apply_recipe_to_slide returns with the tree as it was: no shape is added
\* and no container is created, whatever the recipe, the title and the body.
C17_NoContainerNoOp ==
    (kIn.op = "apply_recipe_to_slide" /\ kRes # << >> /\ ~kIn.slide_root.spTree)
    => /\ kTree = kIn.slide_root
       /\ ~kTree.spTree
       /\ kTree.children = << >>
       /\ kRes = << Ok("None") >>

\* C17 witness: the call was made on a tree without container with a
\* registered recipe that has a title, a body and extra boxes, and with a
\* title and a body to place.
C17_Witness ==
    /\ kIn.op = "apply_recipe_to_slide"
    /\ kRes # << >>
    /\ kIn.slide_root = NoSpTree
    /\ kIn.recipe = dict_get(build_recipes, "two_column", NoRecipe)
    /\ kIn.recipe.title # NoSpec
    /\ kIn.recipe.body # NoSpec
    /\ kIn.recipe.extra_text_boxes # << >>
    /\ kIn.title # ""
    /\ kIn.body # ""
    /\ kTree = NoSpTree

\* The positions of the elements of a tree that carry an id attribute.
WithId(children) ==
    { i \in 1..Len(children) :
        "cNvPr" \in DOMAIN children[i] /\ "id" \in DOMAIN children[i].cNvPr }

\* No two elements of the tree carry the same id attribute.
DistinctIds(children) ==
    \A i, j \in WithId(children) :
        i # j => children[i].cNvPr.id # children[j].cNvPr.id

\* The largest number an id of the tree denotes, and 1 when none is larger.
LargestId(children) ==
    LET ns == {1} \cup { py_int(children[i].cNvPr.id).value :
                           i \in { k \in WithId(children) :
                                     py_int(children[k].cNvPr.id).ok } }
    IN CHOOSE m \in ns : \A n \in ns : m >= n

\* C18: build_slide_from_recipe gives the group node the id 1 and its k
\* content shapes the ids 2, 3, ..., k+1 in placement order, also when the
\* title or the body box is skipped, so the ids of the slide are pairwise
\* distinct; apply_recipe_to_slide gives its new shapes the ids max+1,
\* max+2, ... in placement order, so a tree whose ids were pairwise distinct
\* before the call has pairwise distinct ids after it.
C18_IdsUniqueAndConsecutive ==
    /\ (kIn.op = "build_slide_from_recipe" /\ kRes # << >>)
       => /\ kTree.children[1].tag = "nvGrpSpPr"
          /\ kTree.children[1].cNvPr.id = "1"
          /\ \A j \in 1..Len(ContentShapes) :
               ContentShapes[j].cNvPr.id = ToString(j + 1)
          /\ WithId(kTree.children) = {1} \cup (3..Len(kTree.children))
          /\ DistinctIds(kTree.children)
    /\ (kIn.op = "apply_recipe_to_slide" /\ kRes # << >>)
       => LET old == kIn.slide_root.children IN
          /\ \A j \in 1..Len(AddedShapes) :
               AddedShapes[j].cNvPr.id = ToString(LargestId(old) + j)
          /\ DistinctIds(old) => DistinctIds(kTree.children)

\* C18 witness: build_slide_from_recipe skipped the title box of two_column
\* and gave the body box the id 2 and the extra box the id 3.
C18_Witness ==
    /\ kIn.op = "build_slide_from_recipe"
    /\ kRes # << >>
    /\ kIn.recipe = dict_get(build_recipes, "two_column", NoRecipe)
    /\ kIn.title = ""
    /\ kIn.body # ""
    /\ Len(ContentShapes) = 2
    /\ ContentShapes[1].cNvPr = [id |-> "2", name |-> "col_left"]
    /\ ContentShapes[2].cNvPr = [id |-> "3", name |-> "col_right"]

\* C18 witness of the other call: apply_recipe_to_slide added three or more
\* shapes to a tree whose ids 7 and 1 were distinct, the last of them with
\* the id 7 + the number of shapes added.
C18_WitnessApply ==
    /\ kIn.op = "apply_recipe_to_slide"
    /\ kRes # << >>
    /\ Len(kIn.slide_root.children) = 2
    /\ kIn.slide_root.children[1] = GroupNode
    /\ kIn.slide_root.children[2].cNvPr = [id |-> "7", name |-> "Title"]
    /\ Len(AddedShapes) >= 3
    /\ AddedShapes[Len(AddedShapes)].cNvPr.id = ToString(7 + Len(AddedShapes))
    /\ DistinctIds(kTree.children)

\* C19: the shape build_text_box_xml(spec, shape_id) returns has the id
\* shape_id and the name of the spec, the font size 100 times the spec's
\* point size, the attribute b, with the value 1, exactly when the spec is
\* bold and the attribute i, with the value 1, exactly when it is italic,
\* an empty run text, and the spec's position, alignment, anchor and color.
C19_TextBoxFromSpec ==
    (kIn.op = "build_text_box_xml" /\ kRes # << >>)
    => LET sp   == kRes[1].value
           spec == kIn.spec
       IN /\ kRes[1].ok
          /\ sp.tag = "sp"
          /\ sp.cNvPr = [id |-> ToString(kIn.shape_id), name |-> spec.name]
          /\ sp.rPr.sz = ToString(100 * spec.font_size_pt)
          /\ ("b" \in DOMAIN sp.rPr) <=> spec.bold
          /\ ("i" \in DOMAIN sp.rPr) <=> spec.italic
          /\ Get(sp.rPr, "b", "1") = "1"
          /\ Get(sp.rPr, "i", "1") = "1"
          /\ sp.t = ""
          /\ sp.off = [x |-> ToString(spec.position.x), y |-> ToString(spec.position.y)]
          /\ sp.ext = [cx |-> ToString(spec.position.cx), cy |-> ToString(spec.position.cy)]
          /\ sp.pPr.algn = spec.alignment
          /\ sp.bodyPr.anchor = spec.vertical_anchor
          /\ sp.srgbClr.val = spec.font_color

\* C19 witness: the bold, upright, centred 72 pt spec stat_number became a
\* shape of id 42 with sz="7200" and b="1" and without the attribute i; a
\* spec that is both bold and italic and one that is neither are among the
\* inputs.
C19_Witness ==
    /\ kIn.op = "build_text_box_xml"
    /\ kRes # << >>
    /\ kIn.shape_id = 42
    /\ kIn.spec.name = "stat_number"
    /\ kIn.spec.bold
    /\ ~kIn.spec.italic
    /\ kIn.spec.alignment = "ctr"
    /\ kRes[1].value.cNvPr.id = "42"
    /\ kRes[1].value.rPr.sz = "7200"
    /\ kRes[1].value.rPr.b = "1"
    /\ "i" \notin DOMAIN kRes[1].value.rPr
    /\ \E other \in TextBoxSpecs : other.italic /\ other.bold
    /\ \E other \in TextBoxSpecs : ~other.italic /\ ~other.bold

----------------------------------------------------------------------------
(* diagnose.py: issues and the report *)

Severity == { "error", "warning", "info" }

\* slide_index: Optional[int] is << >> for None and << n >> for n.
NoSlideIndex == << >>

\* A message is the sequence of the pieces its f-string joins.
DiagnosticIssue(kw) ==
    [ code        |-> kw.code,
      severity    |-> kw.severity,
      message     |-> kw.message,
      slide_index |-> Get(kw, "slide_index", NoSlideIndex),
      category    |-> Get(kw, "category", ""),
      detail      |-> Get(kw, "detail", "") ]

DiagnosticReport(kw) ==
    [ issues       |-> Get(kw, "issues", << >>),
      slide_count  |-> Get(kw, "slide_count", 0),
      layout_count |-> Get(kw, "layout_count", 0),
      master_count |-> Get(kw, "master_count", 0) ]

errors(report) ==
    SelectSeq(report.issues, LAMBDA i : i.severity = "error")

warnings(report) ==
    SelectSeq(report.issues, LAMBDA i : i.severity = "warning")

\* A reading of the property that counts every issue as blocking.
has_blocking_issues_any_issue(report) == Len(report.issues) > 0

has_blocking_issues(report) == Len(errors(report)) > 0

to_dict(report) ==
    [ slide_count         |-> report.slide_count,
      layout_count        |-> report.layout_count,
      master_count        |-> report.master_count,
      error_count         |-> Len(errors(report)),
      warning_count       |-> Len(warnings(report)),
      has_blocking_issues |-> has_blocking_issues(report),
      issues              |->
          [ k \in 1..Len(report.issues) |->
                [ code        |-> report.issues[k].code,
                  severity    |-> report.issues[k].severity,
                  message     |-> report.issues[k].message,
                  slide_index |-> report.issues[k].slide_index,
                  category    |-> report.issues[k].category,
                  detail      |-> report.issues[k].detail ] ] ]

\* report.issues.append(DiagnosticIssue(...))
append_issue(report, kw) ==
    [ report EXCEPT !.issues = Append(@, DiagnosticIssue(kw)) ]

----------------------------------------------------------------------------
(* diagnose.py: the archive.  A file on disk is [exists |-> FALSE], a      *)
(* file that is no archive, or an archive with its entries in namelist     *)
(* order.  An entry's name is split into directory, stem, decimal suffix   *)
(* (<< >> when there is none) and extension, which is what the regular     *)
(* expressions of the checks look at.  The data of an XML part either      *)
(* parses to a root or does not.                                           *)

PartName(dir, stem, digits, ext) ==
    [ dir |-> dir, stem |-> stem, digits |-> digits, ext |-> ext ]

\* The file name without its directory.
base_str(name) ==
    name.stem
    \o (IF name.digits = << >> THEN "" ELSE ToString(name.digits[1]))
    \o name.ext

part_str(name) == name.dir \o base_str(name)

ContentTypesPart == PartName("", "[Content_Types]", << >>, ".xml")

PresentationPart == PartName("ppt/", "presentation", << >>, ".xml")

SlidePart(n) == PartName("ppt/slides/", "slide", << n >>, ".xml")

path_exists(file) == file.exists

is_zipfile(file) == file.exists /\ file.is_zip

namelist(zf) == [ k \in 1..Len(zf.entries) |-> zf.entries[k].name ]

in_names(zf, name) == \E k \in 1..Len(zf.entries) : zf.entries[k].name = name

\* zf.read(name): the data of the last entry of that name, or KeyError
zf_read(zf, name) ==
    IF in_names(zf, name)
    THEN LET k == CHOOSE j \in 1..Len(zf.entries) :
                      /\ zf.entries[j].name = name
                      /\ \A m \in (j + 1)..Len(zf.entries) :
                             zf.entries[m].name # name
         IN  Ok(zf.entries[k].data)
    ELSE Err("KeyError")

\* re.match(r"ppt/slides/slide\d+\.xml$", n)
is_slide_file(n) ==
    n.dir = "ppt/slides/" /\ n.stem = "slide" /\ n.digits # << >>
    /\ n.ext = ".xml"

\* re.match(r"ppt/slideLayouts/slideLayout\d+\.xml$", n)
is_layout_file(n) ==
    n.dir = "ppt/slideLayouts/" /\ n.stem = "slideLayout" /\ n.digits # << >>
    /\ n.ext = ".xml"

\* re.match(r"ppt/slideMasters/slideMaster\d+\.xml$", n)
is_master_file(n) ==
    n.dir = "ppt/slideMasters/" /\ n.stem = "slideMaster" /\ n.digits # << >>
    /\ n.ext = ".xml"

\* n.startswith("ppt/slides/_rels/") and n.endswith(".rels")
is_rels_file(n) ==
    n.dir = "ppt/slides/_rels/" /\ n.ext \in { ".rels", ".xml.rels" }

\* int(re.search(r"slide(\d+)", sf).group(1))
slide_number(n) == n.digits[1]

\* etree.fromstring(data)
etree_fromstring(data) ==
    IF data.xml_ok THEN Ok(data.root) ELSE Err("XMLSyntaxError")

NoShape == [cls |-> "None"]

NoIdx == [cls |-> "None"]

\* pptx_utils.find_placeholder(root, ph_type, idx=None): the first shape
\* whose placeholder has that role, unindexed when no idx is asked for
find_placeholder(root, ph_type, idx) ==
    LET matches(sp) ==
            /\ "ph" \in DOMAIN sp
            /\ "type" \in DOMAIN sp.ph
            /\ sp.ph.type = ph_type
            /\ IF idx = NoIdx THEN "idx" \notin DOMAIN sp.ph
               ELSE "idx" \in DOMAIN sp.ph /\ sp.ph.idx = idx.v
        hits == SelectSeq(root.shapes, matches)
    IN  IF hits = << >> THEN NoShape ELSE hits[1]

\* pptx_utils.find_shape_by_name(root, name): the first shape of that name
find_shape_by_name(root, name) ==
    LET hits == SelectSeq(root.shapes,
                          LAMBDA sp : "name" \in DOMAIN sp /\ sp.name = name)
    IN  IF hits = << >> THEN NoShape ELSE hits[1]

\* A reading of the XPath that takes every placeholder for a picture.
pic_shapes_any_placeholder(root) ==
    SelectSeq(root.shapes, LAMBDA sp : "ph" \in DOMAIN sp)

\* root.xpath('.//p:sp[.//p:ph[@type="pic"]]')
pic_shapes(root) ==
    SelectSeq(root.shapes,
              LAMBDA sp : /\ "ph" \in DOMAIN sp
                          /\ "type" \in DOMAIN sp.ph
                          /\ sp.ph.type = "pic")

----------------------------------------------------------------------------
(* diagnose.py: the checks.  A check takes the report and returns it with  *)
(* the issues it appended; a terminal check returns its verdict as well;   *)
(* a check that reads and parses parts returns Ok(report) or the error     *)
(* raised by the read.  A for loop is a recursion over the index k.        *)

check_file_exists(template_path, file, report) ==
    IF ~path_exists(file)
    THEN [ ok |-> FALSE,
           report |-> append_issue(report,
               [ code |-> "TMPL-001", severity |-> "error",
                 message |-> << "Template file not found" >>,
                 category |-> "file", detail |-> template_path ]) ]
    ELSE [ ok |-> TRUE, report |-> report ]

check_valid_zip(template_path, file, report) ==
    IF ~is_zipfile(file)
    THEN [ ok |-> FALSE,
           report |-> append_issue(report,
               [ code |-> "TMPL-002", severity |-> "error",
                 message |-> << "Not a valid ZIP/PPTX file" >>,
                 category |-> "file", detail |-> template_path ]) ]
    ELSE [ ok |-> TRUE, report |-> report ]

required == << ContentTypesPart, PresentationPart >>

missing_part_issue(part) ==
    [ code |-> "TMPL-003", severity |-> "error",
      message |-> << "Missing required OOXML part: ", part_str(part) >>,
      category |-> "structure" ]

\* A reading in which a missing part is reported without stopping the run.
check_required_parts_not_terminal(zf, report) ==
    LET r1 == IF ~in_names(zf, required[1])
              THEN append_issue(report, missing_part_issue(required[1]))
              ELSE report
        r2 == IF ~in_names(zf, required[2])
              THEN append_issue(r1, missing_part_issue(required[2]))
              ELSE r1
    IN  [ ok |-> TRUE, report |-> r2 ]

check_required_parts(zf, report) ==
    LET RECURSIVE loop(_, _)
        loop(k, acc) ==
            IF k > Len(required) THEN acc
            ELSE IF ~in_names(zf, required[k])
            THEN loop(k + 1,
                      [ ok |-> FALSE,
                        report |-> append_issue(acc.report,
                                       missing_part_issue(required[k])) ])
            ELSE loop(k + 1, acc)
    IN  loop(1, [ ok |-> TRUE, report |-> report ])

slide_files(zf) == SelectSeq(namelist(zf), is_slide_file)

NoConfig == [cls |-> "None"]

\* hasattr(config, "get_all_slide_indices")
has_catalog(config) == "slide_indices" \in DOMAIN config

\* A check that takes the catalogued indices as slide numbers, from 1.
check_config_slide_indices_one_based(zf, config, report) ==
    LET files == slide_files(zf)
        RECURSIVE max_loop(_, _)
        max_loop(k, max_slide) ==
            IF k > Len(files) THEN max_slide
            ELSE max_loop(k + 1,
                          IF slide_number(files[k]) > max_slide
                          THEN slide_number(files[k]) ELSE max_slide)
        max_slide == max_loop(1, 0)
        catalog == config.slide_indices
        RECURSIVE loop(_, _, _)
        loop(c, i, rep) ==
            IF c > Len(catalog) THEN rep
            ELSE IF i > Len(catalog[c].value) THEN loop(c + 1, 1, rep)
            ELSE LET idx == catalog[c].value[i]
                 IN  loop(c, i + 1,
                          IF idx < 1 \/ idx > max_slide
                          THEN append_issue(rep,
                                   [ code |-> "TMPL-004",
                                     severity |-> "warning",
                                     message |->
                                         << "Config references slide index ",
                                            ToString(idx), " for '",
                                            catalog[c].key,
                                            "' but template has ",
                                            ToString(max_slide), " slides" >>,
                                     category |-> "config" ])
                          ELSE rep)
    IN  IF config = NoConfig THEN report
        ELSE IF ~has_catalog(config) THEN report
        ELSE loop(1, 1, report)

check_config_slide_indices(zf, config, report) ==
    LET files == slide_files(zf)
        RECURSIVE max_loop(_, _)
        max_loop(k, max_slide) ==
            IF k > Len(files) THEN max_slide
            ELSE max_loop(k + 1,
                          IF slide_number(files[k]) > max_slide
                          THEN slide_number(files[k]) ELSE max_slide)
        max_slide == max_loop(1, 0)
        catalog == config.slide_indices
        RECURSIVE loop(_, _, _)
        loop(c, i, rep) ==
            IF c > Len(catalog) THEN rep
            ELSE IF i > Len(catalog[c].value) THEN loop(c + 1, 1, rep)
            ELSE LET idx == catalog[c].value[i]
                 IN  loop(c, i + 1,
                          IF idx < 0 \/ idx > max_slide
                          THEN append_issue(rep,
                                   [ code |-> "TMPL-004",
                                     severity |-> "warning",
                                     message |->
                                         << "Config references slide index ",
                                            ToString(idx), " for '",
                                            catalog[c].key,
                                            "' but template has ",
                                            ToString(max_slide), " slides" >>,
                                     category |-> "config" ])
                          ELSE rep)
    IN  IF config = NoConfig THEN report
        ELSE IF ~has_catalog(config) THEN report
        ELSE loop(1, 1, report)

\* The slide files taken in the order of the archive, without the sort.
sorted_by_number_unsorted(files) == files

\* sorted(files, key=slide number): a stable insertion sort
sorted_by_number(files) ==
    LET RECURSIVE insert(_, _)
        insert(sorted, n) ==
            IF sorted = << >> THEN << n >>
            ELSE IF slide_number(n) < slide_number(sorted[Len(sorted)])
            THEN Append(insert(SubSeq(sorted, 1, Len(sorted) - 1), n),
                        sorted[Len(sorted)])
            ELSE Append(sorted, n)
        RECURSIVE loop(_, _)
        loop(k, acc) ==
            IF k > Len(files) THEN acc
            ELSE loop(k + 1, insert(acc, files[k]))
    IN  loop(1, << >>)

check_slide_placeholders(zf, report) ==
    LET files == sorted_by_number(slide_files(zf))
        issues_of(root, slide_num, rep) ==
            LET title_shape == find_placeholder(root, "title", NoIdx)
                body_first == find_placeholder(root, "body", NoIdx)
                body_shape == IF body_first = NoShape
                              THEN find_placeholder(root, "body", [v |-> "1"])
                              ELSE body_first
                r1 == IF title_shape = NoShape
                      THEN append_issue(rep,
                               [ code |-> "TMPL-010", severity |-> "warning",
                                 message |->
                                     << "Slide missing TITLE placeholder" >>,
                                 slide_index |-> << slide_num >>,
                                 category |-> "placeholder" ])
                      ELSE rep
                r2 == IF body_shape = NoShape
                      THEN append_issue(r1,
                               [ code |-> "TMPL-011", severity |-> "warning",
                                 message |->
                                     << "Slide missing BODY placeholder" >>,
                                 slide_index |-> << slide_num >>,
                                 category |-> "placeholder" ])
                      ELSE r1
            IN  IF pic_shapes(root) = << >>
                THEN append_issue(r2,
                         [ code |-> "TMPL-012", severity |-> "info",
                           message |->
                               << "Slide has no PICTURE placeholder" >>,
                           slide_index |-> << slide_num >>,
                           category |-> "placeholder" ])
                ELSE r2
        RECURSIVE loop(_, _)
        loop(k, rep) ==
            IF k > Len(files) THEN Ok(rep)
            ELSE LET parsed == etree_fromstring(zf_read(zf, files[k]).value)
                 IN  IF ~parsed.ok THEN parsed
                     ELSE loop(k + 1,
                               issues_of(parsed.value, slide_number(files[k]),
                                         rep))
    IN  loop(1, report)

\* A reading of the loop over the names without its break: one warning for
\* every missing name.
check_stats_dashboard_shapes_every_missing(zf, config, report) ==
    LET expected ==
            << "Stat1_Number", "Stat1_Label", "Stat2_Number", "Stat2_Label" >>
        RECURSIVE issues_of(_, _, _, _)
        issues_of(root, idx, k, rep) ==
            IF k > Len(expected) THEN rep
            ELSE issues_of(root, idx, k + 1,
                     IF find_shape_by_name(root, expected[k]) = NoShape
                     THEN append_issue(rep,
                              [ code |-> "TMPL-020", severity |-> "warning",
                                message |->
                                    << "stats_dashboard slide missing named shape '",
                                       expected[k], "'" >>,
                                slide_index |-> << idx >>,
                                category |-> "named_shape" ])
                     ELSE rep)
        stat_indices == dict_get(config.slide_indices, "stats_dashboard", << >>)
        RECURSIVE loop(_, _)
        loop(k, rep) ==
            IF k > Len(stat_indices) THEN Ok(rep)
            ELSE LET data == zf_read(zf, SlidePart(stat_indices[k]))
                 IN  IF ~data.ok THEN loop(k + 1, rep)
                     ELSE LET parsed == etree_fromstring(data.value)
                          IN  IF ~parsed.ok THEN parsed
                              ELSE loop(k + 1,
                                        issues_of(parsed.value,
                                                  stat_indices[k], 1, rep))
    IN  IF config = NoConfig THEN Ok(report)
        ELSE IF ~has_catalog(config) THEN Ok(report)
        ELSE loop(1, report)

check_stats_dashboard_shapes(zf, config, report) ==
    LET expected ==
            << "Stat1_Number", "Stat1_Label", "Stat2_Number", "Stat2_Label" >>
        \* the loop over the names stops at the first missing one
        issues_of(root, idx, rep) ==
            LET missing == { k \in 1..Len(expected) :
                                 find_shape_by_name(root, expected[k]) = NoShape }
            IN  IF missing = {} THEN rep
                ELSE LET first == CHOOSE k \in missing :
                                      \A m \in missing : k <= m
                     IN  append_issue(rep,
                             [ code |-> "TMPL-020", severity |-> "warning",
                               message |->
                                   << "stats_dashboard slide missing named shape '",
                                      expected[first], "'" >>,
                               slide_index |-> << idx >>,
                               category |-> "named_shape" ])
        stat_indices == dict_get(config.slide_indices, "stats_dashboard", << >>)
        RECURSIVE loop(_, _)
        loop(k, rep) ==
            IF k > Len(stat_indices) THEN Ok(rep)
            ELSE LET data == zf_read(zf, SlidePart(stat_indices[k]))
                 IN  IF ~data.ok THEN loop(k + 1, rep)
                     ELSE LET parsed == etree_fromstring(data.value)
                          IN  IF ~parsed.ok THEN parsed
                              ELSE loop(k + 1,
                                        issues_of(parsed.value,
                                                  stat_indices[k], rep))
    IN  IF config = NoConfig THEN Ok(report)
        ELSE IF ~has_catalog(config) THEN Ok(report)
        ELSE loop(1, report)

check_case_study_shapes(zf, config, report) ==
    LET names == << "Quote", "Attribution" >>
        RECURSIVE issues_of(_, _, _, _)
        issues_of(root, idx, k, rep) ==
            IF k > Len(names) THEN rep
            ELSE issues_of(root, idx, k + 1,
                     IF find_shape_by_name(root, names[k]) = NoShape
                     THEN append_issue(rep,
                              [ code |-> "TMPL-021", severity |-> "warning",
                                message |->
                                    << "case_study_full slide missing '",
                                       names[k], "' shape" >>,
                                slide_index |-> << idx >>,
                                category |-> "named_shape" ])
                     ELSE rep)
        cs_indices == dict_get(config.slide_indices, "case_study_full", << >>)
        RECURSIVE loop(_, _)
        loop(k, rep) ==
            IF k > Len(cs_indices) THEN Ok(rep)
            ELSE LET data == zf_read(zf, SlidePart(cs_indices[k]))
                 IN  IF ~data.ok THEN loop(k + 1, rep)
                     ELSE LET parsed == etree_fromstring(data.value)
                          IN  IF ~parsed.ok THEN parsed
                              ELSE loop(k + 1,
                                        issues_of(parsed.value, cs_indices[k],
                                                  1, rep))
    IN  IF config = NoConfig THEN Ok(report)
        ELSE IF ~has_catalog(config) THEN Ok(report)
        ELSE loop(1, report)

MaxMasters == 3

\* A master count check that reports too many masters as an error.
check_master_count_as_error(zf, report) ==
    LET count == Len(SelectSeq(namelist(zf), is_master_file))
    IN  [ count |-> count,
          report |-> IF count > MaxMasters
                     THEN append_issue(report,
                              [ code |-> "TMPL-030", severity |-> "error",
                                message |-> << "Template has ",
                                               ToString(count),
                                               " slide masters (>3 may cause bloat)" >>,
                                category |-> "structure" ])
                     ELSE report ]

check_master_count(zf, report) ==
    LET count == Len(SelectSeq(namelist(zf), is_master_file))
    IN  [ count |-> count,
          report |-> IF count > MaxMasters
                     THEN append_issue(report,
                              [ code |-> "TMPL-030", severity |-> "warning",
                                message |-> << "Template has ",
                                               ToString(count),
                                               " slide masters (>3 may cause bloat)" >>,
                                category |-> "structure" ])
                     ELSE report ]

\* A relationship's Type is the sequence of its words, its Target a
\* relative path: the directories, then the file name.
word_lower(w) ==
    CASE w = "IMAGE" -> "image"
      [] w = "Image" -> "image"
      [] w = "SlideLayout" -> "slidelayout"
      [] w = "slideLayout" -> "slidelayout"
      [] OTHER -> w

\* "image" in rel_type.lower()
mentions_image(rel_type) ==
    \E k \in 1..Len(rel_type) : word_lower(rel_type[k]) = "image"

\* "ppt/media/" + os.path.basename(target)
media_path(target) ==
    PartName("ppt/media/", target.stem, target.digits, target.ext)

\* re.search(r"slide(\d+)", rf): the number, or None
rels_slide_num(rf) ==
    IF rf.stem = "slide" /\ rf.digits # << >> THEN << rf.digits[1] >>
    ELSE NoSlideIndex

\* The relationship parts are filtered from a Python set, so they come in
\* any order; CheckMissingMedia draws one.
rels_file_orders(zf) ==
    LET found == { k \in 1..Len(zf.entries) : is_rels_file(zf.entries[k].name) }
        names == { zf.entries[k].name : k \in found }
    IN  { order \in [1..Cardinality(names) -> names] :
              \A i, j \in 1..Cardinality(names) :
                  i # j => order[i] # order[j] }

check_missing_media(zf, rels_files, report) ==
    LET \* rel.get("Target", "")
        no_target == [ dirs |-> << >>, stem |-> "", digits |-> << >>,
                       ext |-> "" ]
        \* target.startswith("../media/")
        starts_with_media(target) ==
            /\ Len(target.dirs) >= 2
            /\ target.dirs[1] = ".."
            /\ target.dirs[2] = "media"
        RECURSIVE rel_loop(_, _, _, _)
        rel_loop(rels, slide_num, k, rep) ==
            IF k > Len(rels) THEN rep
            ELSE LET target == Get(rels[k], "Target", no_target)
                     rel_type == Get(rels[k], "Type", << >>)
                 IN  rel_loop(rels, slide_num, k + 1,
                         IF /\ mentions_image(rel_type)
                            /\ starts_with_media(target)
                            /\ ~in_names(zf, media_path(target))
                         THEN append_issue(rep,
                                  [ code |-> "TMPL-040",
                                    severity |-> "warning",
                                    message |->
                                        << "Relationship references missing media file: ",
                                           base_str(target) >>,
                                    slide_index |-> slide_num,
                                    category |-> "media" ])
                         ELSE rep)
        RECURSIVE loop(_, _)
        loop(k, rep) ==
            IF k > Len(rels_files) THEN Ok(rep)
            ELSE LET parsed ==
                         etree_fromstring(zf_read(zf, rels_files[k]).value)
                 IN  IF ~parsed.ok THEN parsed
                     ELSE loop(k + 1,
                               rel_loop(parsed.value.rels,
                                        rels_slide_num(rels_files[k]), 1, rep))
    IN  loop(1, report)

\* The slide is 9144000 EMU by 6858000 EMU; lengths are kept in points of
\* 12700 EMU.
SlideWidthPt == 720

SlideHeightPt == 540

\* int(ext.get(attr, 0)) of an attribute whose text is either a number of
\* EMU, kept in points, or not a number
ext_int(ext, attr) ==
    IF attr \notin DOMAIN ext THEN Ok(0)
    ELSE IF "pt" \in DOMAIN ext[attr] THEN Ok(ext[attr].pt)
    ELSE Err("ValueError")

\* A threshold that a shape of exactly 80% of the slide area reaches.
exceeds_threshold_inclusive(cx, cy) ==
    5 * (cx * cy) >= 4 * (SlideWidthPt * SlideHeightPt)

\* shape_area > 0.8 * slide_area.  The float 0.8 * 62709552000000 is the
\* integer 50167641600000 exactly, so the comparison is one of integers;
\* both sides are divided by 12700 squared.
exceeds_threshold(cx, cy) == 5 * (cx * cy) > 4 * (SlideWidthPt * SlideHeightPt)

check_large_shapes(zf, report) ==
    LET files == slide_files(zf)
        RECURSIVE shape_loop(_, _, _, _)
        shape_loop(shapes, slide_num, k, rep) ==
            IF k > Len(shapes) THEN Ok(rep)
            ELSE LET sp == shapes[k]
                 IN  IF "xfrm" \notin DOMAIN sp
                     THEN shape_loop(shapes, slide_num, k + 1, rep)
                     ELSE IF "ext" \notin DOMAIN sp.xfrm
                     THEN shape_loop(shapes, slide_num, k + 1, rep)
                     ELSE LET cx == ext_int(sp.xfrm.ext, "cx")
                              cy == ext_int(sp.xfrm.ext, "cy")
                          IN  IF ~cx.ok THEN cx
                              ELSE IF ~cy.ok THEN cy
                              ELSE shape_loop(shapes, slide_num, k + 1,
                                       IF exceeds_threshold(cx.value, cy.value)
                                       THEN append_issue(rep,
                                                [ code |-> "TMPL-050",
                                                  severity |-> "info",
                                                  message |->
                                                      << "Shape '",
                                                         Get(sp, "name", "unnamed"),
                                                         "' covers >80% of slide area (potential overlap)" >>,
                                                  slide_index |-> << slide_num >>,
                                                  category |-> "layout" ])
                                       ELSE rep)
        RECURSIVE loop(_, _)
        loop(k, rep) ==
            IF k > Len(files) THEN Ok(rep)
            ELSE LET parsed == etree_fromstring(zf_read(zf, files[k]).value)
                 IN  IF ~parsed.ok THEN parsed
                     ELSE LET scanned == shape_loop(parsed.value.shapes,
                                                    slide_number(files[k]), 1,
                                                    rep)
                          IN  IF ~scanned.ok THEN scanned
                              ELSE loop(k + 1, scanned.value)
    IN  loop(1, report)

----------------------------------------------------------------------------
(* diagnose.py: inputs.  Shapes, slide parts, archives and configs sized   *)
(* to make every check both pass and report.                               *)

Xml(root) == [ xml_ok |-> TRUE, root |-> root ]

\* data that does not parse as XML
NotXml == [ xml_ok |-> FALSE ]

Entry(name, data) == [ name |-> name, data |-> data ]

\* The slide parts of an archive, in namelist order.
SlideEntries ==
    LET Attr(pt) == [ pt |-> pt ]
        Xfrm(cx, cy) ==
            [ off |-> [ x |-> Attr(0), y |-> Attr(0) ],
              ext |-> [ cx |-> Attr(cx), cy |-> Attr(cy) ] ]
        TitleShape ==
            [ ph |-> [ type |-> "title" ], name |-> "Title",
              xfrm |-> Xfrm(720, 79) ]
        BodyShape ==
            [ ph |-> [ type |-> "body", idx |-> "1" ], name |-> "Body",
              xfrm |-> Xfrm(720, 394) ]
        BodyShapeNoIdx == [ ph |-> [ type |-> "body" ], name |-> "Content" ]
        BodyShapeIdx2 ==
            [ ph |-> [ type |-> "body", idx |-> "2" ], name |-> "Second" ]
        PicShape ==
            [ ph |-> [ type |-> "pic", idx |-> "2" ], name |-> "Picture",
              xfrm |-> [ off |-> [ x |-> Attr(0), y |-> Attr(0) ] ] ]
        NamedShape(name) == [ name |-> name, xfrm |-> Xfrm(200, 100) ]
        BackgroundShape == [ name |-> "Background", xfrm |-> Xfrm(720, 540) ]
        \* exactly 80% of the slide area, and one point more
        PanelShape == [ name |-> "Panel", xfrm |-> Xfrm(720, 432) ]
        WidePanelShape == [ name |-> "WidePanel", xfrm |-> Xfrm(720, 433) ]
        UnnamedShape == [ xfrm |-> Xfrm(800, 600) ]
        HalfExtentShape ==
            [ name |-> "NoWidth", xfrm |-> [ ext |-> [ cy |-> Attr(540) ] ] ]
        BadExtentShape ==
            [ name |-> "Broken",
              xfrm |-> [ ext |-> [ cx |-> [ text |-> "abc" ],
                                   cy |-> Attr(10) ] ] ]
        Slide(shapes) == Xml([ shapes |-> shapes ])
        SlideWithPlaceholders == Slide(<< TitleShape, BodyShape >>)
        SlideWithoutPlaceholders == Slide(<< >>)
        SlideFull ==
            Slide(<< TitleShape, BodyShapeNoIdx, PicShape, BackgroundShape >>)
        SlideStatsPartial ==
            Slide(<< TitleShape, NamedShape("Stat1_Number"),
                     NamedShape("Stat1_Label") >>)
        SlideStatsFull ==
            Slide(<< TitleShape, BodyShape, NamedShape("Stat1_Number"),
                     NamedShape("Stat1_Label"), NamedShape("Stat2_Number"),
                     NamedShape("Stat2_Label"), NamedShape("Quote"),
                     NamedShape("Attribution") >>)
        SlideCaseQuoteOnly ==
            Slide(<< TitleShape, BodyShape, NamedShape("Quote"), PanelShape >>)
        SlideLarge ==
            Slide(<< UnnamedShape, WidePanelShape, HalfExtentShape >>)
        SlideBadExtent == Slide(<< TitleShape, BadExtentShape >>)
        SlideSecondBody == Slide(<< BodyShapeIdx2, PicShape >>)
    IN  { << >>,
          << Entry(SlidePart(1), SlideWithPlaceholders) >>,
          << Entry(SlidePart(1), SlideWithoutPlaceholders) >>,
          << Entry(SlidePart(2), SlideStatsPartial),
             Entry(SlidePart(1), SlideFull) >>,
          << Entry(SlidePart(1), SlideStatsFull),
             Entry(SlidePart(2), SlideCaseQuoteOnly) >>,
          << Entry(SlidePart(1), SlideLarge),
             Entry(SlidePart(3), SlideWithoutPlaceholders) >>,
          << Entry(SlidePart(1), NotXml),
             Entry(SlidePart(2), SlideWithoutPlaceholders) >>,
          << Entry(SlidePart(1), SlideWithPlaceholders),
             Entry(SlidePart(2), SlideBadExtent) >>,
          << Entry(SlidePart(4), SlideSecondBody),
             Entry(SlidePart(2), SlideWithPlaceholders) >> }

\* The layouts, masters, relationship parts and media of an archive.
OtherEntries ==
    LET LayoutPart(n) ==
            PartName("ppt/slideLayouts/", "slideLayout", << n >>, ".xml")
        MasterPart(n) ==
            PartName("ppt/slideMasters/", "slideMaster", << n >>, ".xml")
        RelsPart(n) ==
            PartName("ppt/slides/_rels/", "slide", << n >>, ".xml.rels")
        MediaPart(n) == PartName("ppt/media/", "image", << n >>, ".png")
        RelBase ==
            "http://schemas.openxmlformats.org/officeDocument/2006/relationships/"
        MediaTarget(dirs, n) ==
            [ dirs |-> dirs, stem |-> "image", digits |-> << n >>,
              ext |-> ".png" ]
        ImageRel(n) ==
            [ Id |-> "rId" \o ToString(n), Type |-> << RelBase, "image" >>,
              Target |-> MediaTarget(<< "..", "media" >>, n) ]
        LayoutRel ==
            [ Id |-> "rId1", Type |-> << RelBase, "slideLayout" >>,
              Target |-> [ dirs |-> << "..", "slideLayouts" >>,
                           stem |-> "slideLayout", digits |-> << 1 >>,
                           ext |-> ".xml" ] ]
        UpperImageRel ==
            [ Id |-> "rId9", Type |-> << "HTTP://EXAMPLE.ORG/", "IMAGE" >>,
              Target |-> MediaTarget(<< "..", "media", "sub" >>, 9) ]
        ExternalImageRel ==
            [ Id |-> "rId8", Type |-> << RelBase, "image" >>,
              Target |-> MediaTarget(<< "https:", "cdn" >>, 8) ]
        UntargetedRel == [ Id |-> "rId7", Type |-> << RelBase, "image" >> ]
        \* Target="/ppt/media/image5.png", from the root of the package
        AbsoluteImageRel ==
            [ Id |-> "rId6", Type |-> << RelBase, "image" >>,
              Target |-> MediaTarget(<< "", "ppt", "media" >>, 5) ]
        Rels(rels) == Xml([ rels |-> rels ])
    IN  { << >>,
          << Entry(LayoutPart(1), NotXml), Entry(LayoutPart(2), NotXml),
             Entry(MasterPart(1), NotXml),
             Entry(RelsPart(1),
                   Rels(<< LayoutRel, ImageRel(1), ImageRel(2) >>)),
             Entry(MediaPart(1), NotXml) >>,
          << Entry(MasterPart(1), NotXml), Entry(MasterPart(2), NotXml),
             Entry(MasterPart(3), NotXml), Entry(MasterPart(4), NotXml),
             Entry(RelsPart(1), Rels(<< UpperImageRel, ExternalImageRel >>)),
             Entry(RelsPart(2),
                   Rels(<< UntargetedRel, ImageRel(3), AbsoluteImageRel >>)),
             Entry(PartName("ppt/slides/_rels/", "notes", << >>, ".rels"),
                   Rels(<< ImageRel(4) >>)),
             Entry(MediaPart(3), NotXml) >>,
          << Entry(LayoutPart(1), NotXml), Entry(RelsPart(1), NotXml) >> }

RequiredEntries ==
    { << >>,
      << Entry(ContentTypesPart, NotXml) >>,
      << Entry(PresentationPart, NotXml) >>,
      << Entry(ContentTypesPart, NotXml), Entry(PresentationPart, NotXml) >> }

\* A path with no file, a file that is no archive, and the archives.
Files ==
    { [ exists |-> FALSE ], [ exists |-> TRUE, is_zip |-> FALSE ] }
    \cup { [ exists |-> TRUE, is_zip |-> TRUE,
             entries |-> req \o slides \o others ] :
           req \in RequiredEntries, slides \in SlideEntries,
           others \in OtherEntries }

BrandConfig(catalog) == [ cls |-> "BrandConfig", slide_indices |-> catalog ]

Configs ==
    { NoConfig,
      [ cls |-> "object" ],
      BrandConfig(<< >>),
      BrandConfig(<< [ key |-> "title", value |-> << 1 >> ],
                     [ key |-> "stats_dashboard", value |-> << 1, 2 >> ],
                     [ key |-> "case_study_full", value |-> << 2, 7 >> ] >>),
      BrandConfig(<< [ key |-> "content", value |-> << 0, -1, 3 >> ],
                     [ key |-> "stats_dashboard", value |-> << 5 >> ],
                     [ key |-> "case_study_full", value |-> << 1 >> ] >>) }

DiagnoseCalls ==
    { [ op |-> "diagnose_template", template_path |-> "template.pptx",
        file |-> file, config |-> config ] :
      file \in Files, config \in Configs }

----------------------------------------------------------------------------
(* diagnose_template as a state machine.  A run is one call; dPc is the    *)
(* check the run is about to make, and every action is one check of one    *)
(* run.  The initial state holds the call with the file behind its path.   *)

Running(r, pc) == dIn[r] # NotCalled /\ dPc[r] = pc

\* One report object shared by the runs: what a check appends is seen by
\* every run.
Goto_shared_report(r, pc, report) ==
    /\ dPc' = [ dPc EXCEPT ![r] = pc ]
    /\ dReport' = [ q \in Runs |-> report ]
    /\ UNCHANGED << dIn, dOut >>

\* go on to the next check with the report as it is now
Goto(r, pc, report) ==
    /\ dPc' = [ dPc EXCEPT ![r] = pc ]
    /\ dReport' = [ dReport EXCEPT ![r] = report ]
    /\ UNCHANGED << dIn, dOut >>

\* return report
Return(r, report) ==
    /\ dPc' = [ dPc EXCEPT ![r] = "done" ]
    /\ dReport' = [ dReport EXCEPT ![r] = report ]
    /\ dOut' = [ dOut EXCEPT ![r] = Ok(report) ]
    /\ UNCHANGED dIn

\* an exception leaves diagnose_template
Raise(r, error) ==
    /\ dPc' = [ dPc EXCEPT ![r] = "done" ]
    /\ dOut' = [ dOut EXCEPT ![r] = error ]
    /\ UNCHANGED << dIn, dReport >>

InitDiagnose ==
    /\ \E call \in DiagnoseCalls :
           dIn = [ r \in Runs |-> IF r = "a" THEN call ELSE NotCalled ]
    /\ dPc = [ r \in Runs |-> IF r = "a" THEN "file_exists" ELSE "idle" ]
    /\ dReport = [ r \in Runs |-> NotCalled ]
    /\ dOut = [ r \in Runs |-> NotCalled ]
    /\ ReportIdle
    /\ ContentIdle
    /\ CookbookIdle

\* report = DiagnosticReport(); if not _check_file_exists(...): return report
CheckFileExists(r) ==
    /\ Running(r, "file_exists")
    /\ LET res == check_file_exists(dIn[r].template_path, dIn[r].file,
                                    DiagnosticReport(<< >>))
       IN  IF res.ok THEN Goto(r, "valid_zip", res.report)
           ELSE Return(r, res.report)
    /\ UNCHANGED << contentVars, cookbookVars, reportVars >>

\* if not _check_valid_zip(...): return report
CheckValidZip(r) ==
    /\ Running(r, "valid_zip")
    /\ LET res == check_valid_zip(dIn[r].template_path, dIn[r].file,
                                  dReport[r])
       IN  IF res.ok THEN Goto(r, "required_parts", res.report)
           ELSE Return(r, res.report)
    /\ UNCHANGED << contentVars, cookbookVars, reportVars >>

\* if not _check_required_parts(zf, report): return report
CheckRequiredParts(r) ==
    /\ Running(r, "required_parts")
    /\ LET res == check_required_parts(dIn[r].file, dReport[r])
       IN  IF res.ok THEN Goto(r, "count_parts", res.report)
           ELSE Return(r, res.report)
    /\ UNCHANGED << contentVars, cookbookVars, reportVars >>

\* report.slide_count = ...; report.layout_count = ...
CountParts(r) ==
    /\ Running(r, "count_parts")
    /\ LET names == namelist(dIn[r].file)
       IN  Goto(r, "config_slide_indices",
                [ dReport[r] EXCEPT
                      !.slide_count = Len(SelectSeq(names, is_slide_file)),
                      !.layout_count = Len(SelectSeq(names, is_layout_file)) ])
    /\ UNCHANGED << contentVars, cookbookVars, reportVars >>

\* _check_config_slide_indices(zf, config, report)
CheckConfigSlideIndices(r) ==
    /\ Running(r, "config_slide_indices")
    /\ Goto(r, "slide_placeholders",
            check_config_slide_indices(dIn[r].file, dIn[r].config, dReport[r]))
    /\ UNCHANGED << contentVars, cookbookVars, reportVars >>

\* _check_slide_placeholders(zf, report)
CheckSlidePlaceholders(r) ==
    /\ Running(r, "slide_placeholders")
    /\ LET res == check_slide_placeholders(dIn[r].file, dReport[r])
       IN  IF res.ok THEN Goto(r, "stats_dashboard_shapes", res.value)
           ELSE Raise(r, res)
    /\ UNCHANGED << contentVars, cookbookVars, reportVars >>

\* _check_stats_dashboard_shapes(zf, config, report)
CheckStatsDashboardShapes(r) ==
    /\ Running(r, "stats_dashboard_shapes")
    /\ LET res == check_stats_dashboard_shapes(dIn[r].file, dIn[r].config,
                                               dReport[r])
       IN  IF res.ok THEN Goto(r, "case_study_shapes", res.value)
           ELSE Raise(r, res)
    /\ UNCHANGED << contentVars, cookbookVars, reportVars >>

\* _check_case_study_shapes(zf, config, report)
CheckCaseStudyShapes(r) ==
    /\ Running(r, "case_study_shapes")
    /\ LET res == check_case_study_shapes(dIn[r].file, dIn[r].config,
                                          dReport[r])
       IN  IF res.ok THEN Goto(r, "master_count", res.value)
           ELSE Raise(r, res)
    /\ UNCHANGED << contentVars, cookbookVars, reportVars >>

\* report.master_count = _check_master_count(zf, report)
CheckMasterCount(r) ==
    /\ Running(r, "master_count")
    /\ LET res == check_master_count(dIn[r].file, dReport[r])
       IN  Goto(r, "missing_media",
                [ res.report EXCEPT !.master_count = res.count ])
    /\ UNCHANGED << contentVars, cookbookVars, reportVars >>

\* _check_missing_media(zf, report)
CheckMissingMedia(r) ==
    /\ Running(r, "missing_media")
    /\ \E rels_files \in rels_file_orders(dIn[r].file) :
           LET res == check_missing_media(dIn[r].file, rels_files, dReport[r])
           IN  IF res.ok THEN Goto(r, "large_shapes", res.value)
               ELSE Raise(r, res)
    /\ UNCHANGED << contentVars, cookbookVars, reportVars >>

\* _check_large_shapes(zf, report); return report
CheckLargeShapes(r) ==
    /\ Running(r, "large_shapes")
    /\ LET res == check_large_shapes(dIn[r].file, dReport[r])
       IN  IF res.ok THEN Return(r, res.value)
           ELSE Raise(r, res)
    /\ UNCHANGED << contentVars, cookbookVars, reportVars >>

NextDiagnose ==
    \E r \in Runs :
        \/ CheckFileExists(r)
        \/ CheckValidZip(r)
        \/ CheckRequiredParts(r)
        \/ CountParts(r)
        \/ CheckConfigSlideIndices(r)
        \/ CheckSlidePlaceholders(r)
        \/ CheckStatsDashboardShapes(r)
        \/ CheckCaseStudyShapes(r)
        \/ CheckMasterCount(r)
        \/ CheckMissingMedia(r)
        \/ CheckLargeShapes(r)

SpecDiagnose == InitDiagnose /\ [][NextDiagnose]_vars

----------------------------------------------------------------------------
(* Two runs of diagnose_template under way at once, on different archives. *)
(* Every step is one check of one of the runs, in any interleaving.        *)

\* diagnose_template(template_path, config) made alone, from its first
\* check to its return: the outcomes it can have, one per order in which
\* the set of relationship parts is iterated.
diagnose_template(template_path, file, config) ==
    LET c1 == check_file_exists(template_path, file, DiagnosticReport(<< >>))
    IN
    IF ~c1.ok THEN { Ok(c1.report) }
    ELSE LET c2 == check_valid_zip(template_path, file, c1.report) IN
    IF ~c2.ok THEN { Ok(c2.report) }
    ELSE LET c3 == check_required_parts(file, c2.report) IN
    IF ~c3.ok THEN { Ok(c3.report) }
    ELSE LET names == namelist(file)
             r4 == [ c3.report EXCEPT
                       !.slide_count = Len(SelectSeq(names, is_slide_file)),
                       !.layout_count = Len(SelectSeq(names, is_layout_file)) ]
             r5 == check_config_slide_indices(file, config, r4)
             c6 == check_slide_placeholders(file, r5)
         IN
    IF ~c6.ok THEN { c6 }
    ELSE LET c7 == check_stats_dashboard_shapes(file, config, c6.value) IN
    IF ~c7.ok THEN { c7 }
    ELSE LET c8 == check_case_study_shapes(file, config, c7.value) IN
    IF ~c8.ok THEN { c8 }
    ELSE LET c9 == check_master_count(file, c8.value)
             r9 == [ c9.report EXCEPT !.master_count = c9.count ]
         IN  { LET c10 == check_missing_media(file, rels_files, r9)
               IN  IF ~c10.ok THEN c10
                   ELSE check_large_shapes(file, c10.value) :
               rels_files \in rels_file_orders(file) }

\* The calls made at once: on a path with no file, and on archives that
\* hold the required parts, four masters and two relationship parts.
ConcurrentCalls ==
    { call \in DiagnoseCalls :
        \/ ~call.file.exists /\ call.config = NoConfig
        \/ /\ call.file.exists
           /\ call.file.is_zip
           /\ in_names(call.file, ContentTypesPart)
           /\ in_names(call.file, PresentationPart)
           /\ Len(SelectSeq(namelist(call.file), is_master_file)) = 4
           /\ has_catalog(call.config)
           /\ Len(call.config.slide_indices) = 3
           /\ call.config.slide_indices[1].key = "title" }

InitConcurrent ==
    /\ dIn \in { d \in [ Runs -> ConcurrentCalls ] : d["a"].file # d["b"].file }
    /\ dPc = [ r \in Runs |-> "file_exists" ]
    /\ dReport = [ r \in Runs |-> NotCalled ]
    /\ dOut = [ r \in Runs |-> NotCalled ]
    /\ ReportIdle
    /\ ContentIdle
    /\ CookbookIdle

SpecConcurrent == InitConcurrent /\ [][NextDiagnose]_vars

\* C23: interleaved runs over different archives are independent: whatever
\* the interleaving, a run that has finished has an outcome it has when run
\* alone (the report with its issues, their order and its counts, or the
\* exception), a run still under way has not returned, and the recipe
\* registry is as it was constructed.
C23_RunsIndependent ==
    /\ COOKBOOK = build_recipes
    /\ \A r \in Runs :
         IF dPc[r] = "done"
         THEN dOut[r] \in diagnose_template(dIn[r].template_path, dIn[r].file,
                                            dIn[r].config)
         ELSE dOut[r] = NotCalled

\* C23 witness: two runs on different archives have both returned, each a
\* report with issues of its own, the two reports differing.
C23_Witness ==
    /\ \A r \in Runs : dPc[r] = "done" /\ dOut[r].ok
    /\ dIn["a"].file # dIn["b"].file
    /\ dIn["a"].file.exists /\ dIn["b"].file.exists
    /\ Len(dOut["a"].value.issues) >= 3
    /\ Len(dOut["b"].value.issues) >= 3
    /\ dOut["a"].value.issues # dOut["b"].value.issues
    /\ dOut["a"].value.slide_count = 2
    /\ dOut["b"].value.slide_count = 1

----------------------------------------------------------------------------
(* Properties of diagnose_template *)

\* The required parts the archive lacks, in the order they are looked for.
MissingParts(file) ==
    SelectSeq(<< ContentTypesPart, PresentationPart >>,
              LAMBDA p : ~\E k \in 1..Len(file.entries) :
                              file.entries[k].name = p)

\* The run has returned a report that holds n issues, all of that code and
\* all errors, that blocks, and whose counts were never set.
StoppedWith(r, code, n) ==
    /\ dOut[r].ok
    /\ dOut[r].value = dReport[r]
    /\ Len(dOut[r].value.issues) = n
    /\ \A k \in 1..Len(dOut[r].value.issues) :
           /\ dOut[r].value.issues[k].code = code
           /\ dOut[r].value.issues[k].severity = "error"
    /\ has_blocking_issues(dOut[r].value)
    /\ to_dict(dOut[r].value).has_blocking_issues
    /\ dOut[r].value.slide_count = 0
    /\ dOut[r].value.layout_count = 0
    /\ dOut[r].value.master_count = 0

\* C3: diagnose_template stops at the first failing terminal check.  A run
\* on a missing path never goes past the existence check and returns a
\* report whose only issue is TMPL-001; a run on a file that is no archive
\* never goes past the archive check and returns only TMPL-002; a run on an
\* archive that lacks the content-type manifest or the presentation part
\* never goes past the required-parts check and returns only TMPL-003
\* issues, one per missing part and naming it.  In all three cases the
\* report blocks and holds no issue of a later check.
C3_TerminalChecksStop ==
    \A r \in Runs :
        dIn[r] # NotCalled =>
            LET file == dIn[r].file
            IN  /\ ~file.exists =>
                       /\ dPc[r] \in { "file_exists", "done" }
                       /\ dPc[r] = "done" => StoppedWith(r, "TMPL-001", 1)
                /\ (file.exists /\ ~file.is_zip) =>
                       /\ dPc[r] \in { "file_exists", "valid_zip", "done" }
                       /\ dPc[r] = "done" => StoppedWith(r, "TMPL-002", 1)
                /\ (file.exists /\ file.is_zip
                    /\ MissingParts(file) # << >>) =>
                       /\ dPc[r] \in { "file_exists", "valid_zip",
                                       "required_parts", "done" }
                       /\ dPc[r] = "done" =>
                              /\ StoppedWith(r, "TMPL-003",
                                             Len(MissingParts(file)))
                              /\ \A k \in 1..Len(MissingParts(file)) :
                                     dOut[r].value.issues[k].message =
                                         << "Missing required OOXML part: ",
                                            part_str(MissingParts(file)[k]) >>

\* A run has returned on an archive that lacks both required parts and holds
\* a slide without any placeholder, on which the later checks would report.
C3_Witness ==
    \E r \in Runs :
        /\ dIn[r] # NotCalled
        /\ dPc[r] = "done"
        /\ dIn[r].file.exists
        /\ dIn[r].file.is_zip
        /\ Len(MissingParts(dIn[r].file)) = 2
        /\ \E k \in 1..Len(dIn[r].file.entries) :
               /\ is_slide_file(dIn[r].file.entries[k].name)
               /\ dIn[r].file.entries[k].data = Xml([ shapes |-> << >> ])
        /\ has_catalog(dIn[r].config)
        /\ Len(dOut[r].value.issues) = 2

\* The run has gone past the check that is made at pc: the check returned.
Past(r, pc) ==
    LET order == << "file_exists", "valid_zip", "required_parts",
                    "count_parts", "config_slide_indices",
                    "slide_placeholders", "stats_dashboard_shapes",
                    "case_study_shapes", "master_count", "missing_media",
                    "large_shapes" >>
        at(p) == CHOOSE k \in 1..Len(order) : order[k] = p
    IN  /\ dIn[r] # NotCalled
        /\ \/ dPc[r] = "done" /\ dOut[r].ok
              /\ dIn[r].file.exists /\ dIn[r].file.is_zip
              /\ MissingParts(dIn[r].file) = << >>
           \/ dPc[r] \notin { "done", "idle" } /\ at(dPc[r]) > at(pc)

\* The slide parts of the archive of a run, as entries.
SlidesOf(r) ==
    SelectSeq(dIn[r].file.entries, LAMBDA e : is_slide_file(e.name))

\* The issues of that code the report holds for slide n.
IssuesFor(report, code, n) ==
    SelectSeq(report.issues,
              LAMBDA i : i.code = code /\ i.slide_index = << n >>)

\* The slide holds a placeholder of that role whose index is one of idxs,
\* "" standing for no index.
HasPlaceholder(shapes, role, idxs) ==
    \E k \in 1..Len(shapes) :
        /\ "ph" \in DOMAIN shapes[k]
        /\ "type" \in DOMAIN shapes[k].ph
        /\ shapes[k].ph.type = role
        /\ (IF "idx" \in DOMAIN shapes[k].ph THEN shapes[k].ph.idx ELSE "")
               \in idxs

\* Exactly one issue of that code and severity for slide n when absent holds,
\* none otherwise.
EmitsIff(report, code, severity, n, absent) ==
    LET found == IssuesFor(report, code, n)
    IN  /\ Len(found) = (IF absent THEN 1 ELSE 0)
        /\ \A k \in 1..Len(found) : found[k].severity = severity

ClassifiedSlides(r, key) ==
    LET config == dIn[r].config
        indices == IF config # NoConfig /\ "slide_indices" \in DOMAIN config
                   THEN dict_get(config.slide_indices, key, << >>)
                   ELSE << >>
    IN  SelectSeq(SlidesOf(r),
                  LAMBDA e : \E k \in 1..Len(indices) :
                                 e.name.digits = << indices[k] >>)

\* Those of the names that no shape of the slide bears, in their order.
MissingNames(shapes, names) ==
    SelectSeq(names,
              LAMBDA nm : ~\E k \in 1..Len(shapes) :
                               "name" \in DOMAIN shapes[k]
                               /\ shapes[k].name = nm)

\* C12: once the named-shape check of the stats_dashboard slides has
\* returned, the report holds for each slide part the config classifies as
\* stats_dashboard at most one TMPL-020 warning: none when Stat1_Number,
\* Stat1_Label, Stat2_Number and Stat2_Label are all present, and otherwise
\* one, naming the first of them that is missing in that order.  Once the
\* check of the case_study_full slides has returned, the report holds for
\* each slide part classified case_study_full one TMPL-021 warning for each
\* of Quote and Attribution that is missing, naming it, and no other: 0, 1
\* or 2 per slide.  No issue of either code is tagged with another slide.
C12_NamedShapeIssues ==
    \A r \in Runs :
        /\ Past(r, "stats_dashboard_shapes") =>
               LET slides == ClassifiedSlides(r, "stats_dashboard")
                   names == << "Stat1_Number", "Stat1_Label",
                               "Stat2_Number", "Stat2_Label" >>
               IN  /\ \A k \in 1..Len(slides) :
                          LET n == slides[k].name.digits[1]
                              missing ==
                                  MissingNames(slides[k].data.root.shapes,
                                               names)
                              found == IssuesFor(dReport[r], "TMPL-020", n)
                          IN  /\ Len(found) <= 1
                              /\ Len(found) = 0 <=> missing = << >>
                              /\ Len(found) = 1 =>
                                     /\ found[1].severity = "warning"
                                     /\ found[1].message =
                                            << "stats_dashboard slide missing named shape '",
                                               missing[1], "'" >>
                   /\ \A i \in 1..Len(dReport[r].issues) :
                          dReport[r].issues[i].code = "TMPL-020" =>
                              \E k \in 1..Len(slides) :
                                  dReport[r].issues[i].slide_index =
                                      slides[k].name.digits
        /\ Past(r, "case_study_shapes") =>
               LET slides == ClassifiedSlides(r, "case_study_full")
                   names == << "Quote", "Attribution" >>
               IN  /\ \A k \in 1..Len(slides) :
                          LET n == slides[k].name.digits[1]
                              missing ==
                                  MissingNames(slides[k].data.root.shapes,
                                               names)
                              found == IssuesFor(dReport[r], "TMPL-021", n)
                          IN  /\ Len(found) = Len(missing)
                              /\ Len(found) \in { 0, 1, 2 }
                              /\ \A j \in 1..Len(found) :
                                     /\ found[j].severity = "warning"
                                     /\ found[j].message =
                                            << "case_study_full slide missing '",
                                               missing[j], "' shape" >>
                   /\ \A i \in 1..Len(dReport[r].issues) :
                          dReport[r].issues[i].code = "TMPL-021" =>
                              \E k \in 1..Len(slides) :
                                  dReport[r].issues[i].slide_index =
                                      slides[k].name.digits

\* A run has returned on an archive whose slide 2 lacks both Stat2 shapes,
\* Quote and Attribution and whose slide 1 lacks all four stat shapes, under
\* a config that classifies both as stats_dashboard and slide 2 as
\* case_study_full: one TMPL-020 per slide and two TMPL-021 for slide 2.
C12_Witness ==
    \E r \in Runs :
        /\ Past(r, "large_shapes")
        /\ Len(ClassifiedSlides(r, "stats_dashboard")) = 2
        /\ Len(IssuesFor(dOut[r].value, "TMPL-020", 1)) = 1
        /\ Len(IssuesFor(dOut[r].value, "TMPL-020", 2)) = 1
        /\ IssuesFor(dOut[r].value, "TMPL-020", 2)[1].message[2]
               = "Stat2_Number"
        /\ Len(IssuesFor(dOut[r].value, "TMPL-021", 2)) = 2

\* The archive of the run passes the three terminal checks.
PassesTerminalChecks(r) ==
    /\ dIn[r] # NotCalled
    /\ dIn[r].file.exists
    /\ dIn[r].file.is_zip
    /\ MissingParts(dIn[r].file) = << >>

\* C13: a run on an archive that passes the three terminal checks never
\* ends in an exception: it returns a report, whatever the archive holds
\* and whatever the config, and a part that does not parse does not keep
\* the checks from the other slide parts, so the report accounts for the
\* placeholders of every slide part that parses.
C13_NeverFailsFatally ==
    \A r \in Runs :
        (PassesTerminalChecks(r) /\ dPc[r] = "done") =>
            /\ dOut[r].ok
            /\ \A k \in 1..Len(SlidesOf(r)) :
                   LET e == SlidesOf(r)[k]
                   IN  e.data.xml_ok =>
                           EmitsIff(dOut[r].value, "TMPL-010", "warning",
                                    e.name.digits[1],
                                    ~HasPlaceholder(e.data.root.shapes,
                                                    "title", { "" }))

\* What does hold: a run on such an archive ends in an exception only when
\* a slide or relationship part does not parse as XML or an extent
\* attribute is not a number, and returns a report otherwise.
C13_FailsOnlyOnDefectiveParts ==
    \A r \in Runs :
        (PassesTerminalChecks(r) /\ dPc[r] = "done") =>
            LET entries == dIn[r].file.entries
                defective(e) ==
                    \/ (is_slide_file(e.name) \/ is_rels_file(e.name))
                       /\ ~e.data.xml_ok
                    \/ /\ is_slide_file(e.name)
                       /\ e.data.xml_ok
                       /\ \E j \in 1..Len(e.data.root.shapes) :
                              LET sp == e.data.root.shapes[j]
                              IN  /\ "xfrm" \in DOMAIN sp
                                  /\ "ext" \in DOMAIN sp.xfrm
                                  /\ \E a \in DOMAIN sp.xfrm.ext :
                                         "pt" \notin DOMAIN sp.xfrm.ext[a]
            IN  dOut[r].ok <=> ~\E k \in 1..Len(entries) :
                                     defective(entries[k])

\* The place of a check in the sequence of diagnose_template, by the code
\* of the issues it appends.
CheckRank(code) ==
    CASE code \in { "TMPL-001", "TMPL-002", "TMPL-003" } -> 0
      [] code = "TMPL-004" -> 1
      [] code \in { "TMPL-010", "TMPL-011", "TMPL-012" } -> 2
      [] code = "TMPL-020" -> 3
      [] code = "TMPL-021" -> 4
      [] code = "TMPL-030" -> 5
      [] code = "TMPL-040" -> 6
      [] code = "TMPL-050" -> 7
      [] OTHER -> 8

\* The issues of the report of run r so far.
IssuesSoFar(r) == IF dReport[r] = NotCalled THEN << >> ELSE dReport[r].issues

\* The issues are in the order of the checks, and the placeholder issues
\* in the order of the slide numbers and, within a slide, of their codes.
InCheckOrder(issues) ==
    \A i, j \in 1..Len(issues) :
        i < j =>
          /\ CheckRank(issues[i].code) <= CheckRank(issues[j].code)
          /\ CheckRank(issues[j].code) <= 7
          /\ (CheckRank(issues[i].code) = 2 /\ CheckRank(issues[j].code) = 2)
             => \/ issues[i].slide_index[1] < issues[j].slide_index[1]
                \/ /\ issues[i].slide_index = issues[j].slide_index
                   /\ \E a, b \in 0..2 :
                        /\ a < b
                        /\ issues[i].code = "TMPL-01" \o ToString(a)
                        /\ issues[j].code = "TMPL-01" \o ToString(b)

\* C24: in every run the report keeps discovery order: TMPL-004 issues come
\* before TMPL-010/011/012 issues, then TMPL-020, TMPL-021, TMPL-030,
\* TMPL-040 and TMPL-050; placeholder issues are grouped by slide in
\* increasing slide number and, within a slide, in the order TMPL-010,
\* TMPL-011, TMPL-012; and every step leaves the issues already in a report
\* where they are, adding only at the end.
C24_DiscoveryOrder ==
    /\ [](\A r \in Runs : InCheckOrder(IssuesSoFar(r)))
    /\ [][\A r \in Runs :
            /\ Len(IssuesSoFar(r)') >= Len(IssuesSoFar(r))
            /\ SubSeq(IssuesSoFar(r)', 1, Len(IssuesSoFar(r))) = IssuesSoFar(r)]_vars

\* C24 witness: a run returned a report that begins with a TMPL-004 issue,
\* holds placeholder issues of slide 2 and then of slide 4, though the
\* archive lists slide 4 first, and ends with a TMPL-040 issue.
C24_Witness ==
    /\ dPc["a"] = "done"
    /\ dOut["a"].ok
    /\ LET issues == dOut["a"].value.issues IN
       /\ Len(issues) >= 5
       /\ issues[1].code = "TMPL-004"
       /\ issues[Len(issues)].code = "TMPL-040"
       /\ \E i, j \in 1..Len(issues) :
            /\ i < j
            /\ issues[i].code = "TMPL-012"
            /\ issues[i].slide_index = << 2 >>
            /\ issues[j].code = "TMPL-010"
            /\ issues[j].slide_index = << 4 >>
    /\ is_slide_file(dIn["a"].file.entries[3].name)
    /\ slide_number(dIn["a"].file.entries[3].name) = 4

\* The largest slide number among the slide parts of the archive, 0 when it
\* has none.
MaxObserved(file) ==
    LET ns == {0} \cup { file.entries[k].name.digits[1] :
                          k \in { e \in 1..Len(file.entries) :
                                    is_slide_file(file.entries[e].name) } }
    IN  CHOOSE m \in ns : \A n \in ns : m >= n

\* The TMPL-004 issues of a report.
ConfigIssues(report) ==
    SelectSeq(report.issues, LAMBDA i : i.code = "TMPL-004")

\* C25: once the config check has returned, the report holds one TMPL-004
\* warning, naming the index and its category, for every catalogued index
\* below 0 or above the largest observed slide number, and none for an
\* index within that range; it holds none when no config is given or the
\* config has no catalog; and the check never ends the run: the next step
\* is the placeholder check, and a run that returns a report with TMPL-004
\* issues has counted the masters.
C25_ConfigCrossReference ==
    /\ [](\A r \in Runs :
            Past(r, "config_slide_indices") =>
              LET found   == ConfigIssues(dReport[r])
                  config  == dIn[r].config
                  max     == MaxObserved(dIn[r].file)
                  catalog == IF config = NoConfig THEN << >>
                             ELSE IF ~has_catalog(config) THEN << >>
                             ELSE config.slide_indices
                  Named(k, c, i) ==
                      /\ found[k].message[2] = ToString(catalog[c].value[i])
                      /\ found[k].message[4] = catalog[c].key
                  Outside(idx) == idx < 0 \/ idx > max
              IN  /\ \A k \in 1..Len(found) :
                       /\ found[k].severity = "warning"
                       /\ found[k].slide_index = NoSlideIndex
                       /\ \E c \in 1..Len(catalog) :
                            \E i \in 1..Len(catalog[c].value) :
                               Named(k, c, i) /\ Outside(catalog[c].value[i])
                  /\ \A c \in 1..Len(catalog) :
                       \A i \in 1..Len(catalog[c].value) :
                          Cardinality({ k \in 1..Len(found) : Named(k, c, i) })
                            = IF Outside(catalog[c].value[i])
                              THEN Cardinality(
                                     { i2 \in 1..Len(catalog[c].value) :
                                         catalog[c].value[i2] = catalog[c].value[i] })
                              ELSE 0
                  /\ (catalog = << >>) => (found = << >>)
                  /\ (dPc[r] = "done" /\ found # << >>)
                     => dReport[r].master_count
                          = Len(SelectSeq(namelist(dIn[r].file), is_master_file)))
    /\ [][\A r \in Runs :
            (dPc[r] = "config_slide_indices" /\ dPc'[r] # dPc[r])
              => (dPc'[r] = "slide_placeholders" /\ dOut'[r] = NotCalled)]_vars

\* C25 witness: the config check has just reported the indices -1 and 5 of
\* a catalog that also holds 0 and 3, against an archive whose largest
\* slide number is 3, and the run goes on with the placeholder check.
C25_Witness ==
    /\ dPc["a"] = "slide_placeholders"
    /\ has_catalog(dIn["a"].config)
    /\ Len(dIn["a"].config.slide_indices) = 3
    /\ dIn["a"].config.slide_indices[1].value = << 0, -1, 3 >>
    /\ MaxObserved(dIn["a"].file) = 3
    /\ Len(ConfigIssues(dReport["a"])) = 2
    /\ ConfigIssues(dReport["a"])[1].message[2] = "-1"
    /\ ConfigIssues(dReport["a"])[2].message[2] = "5"

\* The image relationships of the relationship parts of the archive that
\* belong to slide index n, as (entry, relationship) positions.
ImageRels(file, n) ==
    { pr \in (1..Len(file.entries)) \X (1..4) :
        /\ is_rels_file(file.entries[pr[1]].name)
        /\ rels_slide_num(file.entries[pr[1]].name) = n
        /\ file.entries[pr[1]].data.xml_ok
        /\ pr[2] <= Len(file.entries[pr[1]].data.root.rels)
        /\ mentions_image(Get(file.entries[pr[1]].data.root.rels[pr[2]],
                              "Type", << >>)) }

\* The target of the relationship at that position; one without Target
\* has the empty target.
TargetOf(file, pr) ==
    Get(file.entries[pr[1]].data.root.rels[pr[2]], "Target",
        [ dirs |-> << >>, stem |-> "", digits |-> << >>, ext |-> "" ])

\* The file the target names is a part of the media directory.
ResolvesToMedia(file, target) ==
    in_names(file, PartName("ppt/media/", target.stem, target.digits, target.ext))

\* The target lies below "../media/".
BelowMediaDir(target) ==
    Len(target.dirs) >= 2 /\ target.dirs[1] = ".." /\ target.dirs[2] = "media"

\* The TMPL-040 issues of the report for slide index n that name that file.
MediaIssues(report, n, target) ==
    { k \in 1..Len(report.issues) :
        /\ report.issues[k].code = "TMPL-040"
        /\ report.issues[k].severity = "warning"
        /\ report.issues[k].slide_index = n
        /\ report.issues[k].message[2] = base_str(target) }

SlideIndices == { NoSlideIndex } \cup { << n >> : n \in 1..4 }

\* C26: once the media check has returned, every image relationship of a
\* slide's relationship part whose target names no part of the media
\* directory has produced one TMPL-040 warning under that slide's index,
\* and one whose target names a media part has produced none.
C26_MissingMediaWarned ==
    \A r \in Runs :
        Past(r, "missing_media") =>
          \A n \in SlideIndices :
            \A pr \in ImageRels(dIn[r].file, n) :
              LET file   == dIn[r].file
                  target == TargetOf(file, pr)
                  same   == { q \in ImageRels(file, n) :
                                base_str(TargetOf(file, q)) = base_str(target) }
              IN  Cardinality(MediaIssues(dReport[r], n, target))
                    = IF ResolvesToMedia(file, target) THEN 0
                      ELSE Cardinality(same)

\* Once the media check has returned, every image relationship whose target
\* lies below "../media/" and names no part of the media directory has
\* produced one TMPL-040 warning under its slide's index, and every other
\* relationship none.
C26_WarnedBelowMediaDir ==
    \A r \in Runs :
        Past(r, "missing_media") =>
          \A n \in SlideIndices :
            \A pr \in ImageRels(dIn[r].file, n) :
              LET file   == dIn[r].file
                  target == TargetOf(file, pr)
                  same   == { q \in ImageRels(file, n) :
                                /\ base_str(TargetOf(file, q)) = base_str(target)
                                /\ BelowMediaDir(TargetOf(file, q))
                                /\ ~ResolvesToMedia(file, TargetOf(file, q)) }
              IN  Cardinality(MediaIssues(dReport[r], n, target))
                    = Cardinality(same)

\* The shapes of the slide parts numbered n, as (entry, shape) positions.
ShapesOn(file, n) ==
    { ps \in (1..Len(file.entries)) \X (1..8) :
        /\ is_slide_file(file.entries[ps[1]].name)
        /\ slide_number(file.entries[ps[1]].name) = n
        /\ file.entries[ps[1]].data.xml_ok
        /\ ps[2] <= Len(file.entries[ps[1]].data.root.shapes) }

ShapeAt(file, ps) == file.entries[ps[1]].data.root.shapes[ps[2]]

\* The area of the extent of a shape in square points, an absent cx or cy
\* counting as 0; no area for a shape without extent.
HasExtent(sp) == "xfrm" \in DOMAIN sp /\ "ext" \in DOMAIN sp.xfrm

AreaOf(sp) ==
    Get(sp.xfrm.ext, "cx", [ pt |-> 0 ]).pt * Get(sp.xfrm.ext, "cy", [ pt |-> 0 ]).pt

\* More than 80 hundredths of the slide area.
OverEightyPercent(sp) ==
    HasExtent(sp) /\ 100 * AreaOf(sp) > 80 * (SlideWidthPt * SlideHeightPt)

\* C27: a run that has returned past the oversized-shape check holds, for
\* every shape of every slide part, one info-level TMPL-050 issue with the
\* shape's name and the slide's number if and only if the shape has an
\* extent whose area is strictly more than 80% of the slide area; a shape
\* of exactly 80%, or smaller, or without extent, has none.
C27_OversizedShapes ==
    \A r \in Runs :
        Past(r, "large_shapes") =>
          LET file  == dIn[r].file
              found == SelectSeq(dReport[r].issues, LAMBDA i : i.code = "TMPL-050")
          IN  /\ \A k \in 1..Len(found) :
                   /\ found[k].severity = "info"
                   /\ \E n \in 1..4 :
                        /\ found[k].slide_index = << n >>
                        /\ \E ps \in ShapesOn(file, n) :
                             /\ OverEightyPercent(ShapeAt(file, ps))
                             /\ found[k].message[2]
                                  = Get(ShapeAt(file, ps), "name", "unnamed")
              /\ \A n \in 1..4 :
                   \A ps \in ShapesOn(file, n) :
                      LET name == Get(ShapeAt(file, ps), "name", "unnamed")
                          over == { q \in ShapesOn(file, n) :
                                      /\ Get(ShapeAt(file, q), "name", "unnamed") = name
                                      /\ OverEightyPercent(ShapeAt(file, q)) }
                      IN  Cardinality({ k \in 1..Len(found) :
                                          /\ found[k].slide_index = << n >>
                                          /\ found[k].message[2] = name })
                            = Cardinality(over)

\* C27 witness: a run has returned on an archive whose slide 2 holds a
\* panel of exactly 80% of the slide area, and the report has no TMPL-050
\* issue.
C27_Witness ==
    /\ dPc["a"] = "done"
    /\ dOut["a"].ok
    /\ PassesTerminalChecks("a")
    /\ \E ps \in ShapesOn(dIn["a"].file, 2) :
         /\ HasExtent(ShapeAt(dIn["a"].file, ps))
         /\ 5 * AreaOf(ShapeAt(dIn["a"].file, ps)) = 4 * (SlideWidthPt * SlideHeightPt)
    /\ \A k \in 1..Len(dOut["a"].value.issues) :
         dOut["a"].value.issues[k].code # "TMPL-050"
    /\ dOut["a"].value.master_count = 4

\* A run has returned on an archive whose slide 1 holds an unnamed shape
\* larger than the slide and a panel one point wider than 80%: the report
\* ends with the two TMPL-050 issues for slide 1.
C27_WitnessOver ==
    /\ dPc["a"] = "done"
    /\ dOut["a"].ok
    /\ LET issues == dOut["a"].value.issues IN
       /\ Len(issues) >= 2
       /\ issues[Len(issues)].code = "TMPL-050"
       /\ issues[Len(issues)].message[2] = "WidePanel"
       /\ issues[Len(issues) - 1].code = "TMPL-050"
       /\ issues[Len(issues) - 1].message[2] = "unnamed"
       /\ issues[Len(issues)].slide_index = << 1 >>

\* C29: no check after the three terminal ones appends an error: every
\* issue of code TMPL-004 to TMPL-050, in a report under way or returned,
\* is a warning or an info; a returned report has has_blocking_issues true
\* if and only if the run stopped at a terminal check, and then its
\* slide_count, layout_count and master_count are 0.
C29_OnlyTerminalChecksBlock ==
    \A r \in Runs :
        /\ \A k \in 1..Len(IssuesSoFar(r)) :
             LET issue == IssuesSoFar(r)[k] IN
             IF issue.code \in { "TMPL-001", "TMPL-002", "TMPL-003" }
             THEN issue.severity = "error"
             ELSE /\ issue.code \in { "TMPL-004", "TMPL-010", "TMPL-011",
                                      "TMPL-012", "TMPL-020", "TMPL-021",
                                      "TMPL-030", "TMPL-040", "TMPL-050" }
                  /\ issue.severity \in { "warning", "info" }
        /\ (dPc[r] = "done" /\ dOut[r].ok)
           => LET report == dOut[r].value IN
              /\ has_blocking_issues(report) <=> ~PassesTerminalChecks(r)
              /\ to_dict(report).has_blocking_issues <=> ~PassesTerminalChecks(r)
              /\ has_blocking_issues(report)
                 => /\ report.slide_count = 0
                    /\ report.layout_count = 0
                    /\ report.master_count = 0
                    /\ \A k \in 1..Len(report.issues) :
                         report.issues[k].code
                           \in { "TMPL-001", "TMPL-002", "TMPL-003" }

\* C29 witness: a run on an archive with four masters, two layouts short of
\* none and a slide without placeholders returned a report with warnings,
\* among them TMPL-030, that does not block and has its counts set.
C29_Witness ==
    /\ dPc["a"] = "done"
    /\ dOut["a"].ok
    /\ PassesTerminalChecks("a")
    /\ ~has_blocking_issues(dOut["a"].value)
    /\ dOut["a"].value.master_count = 4
    /\ dOut["a"].value.slide_count = 1
    /\ \E k \in 1..Len(dOut["a"].value.issues) :
         dOut["a"].value.issues[k].code = "TMPL-030"
    /\ \E k \in 1..Len(dOut["a"].value.issues) :
         dOut["a"].value.issues[k].code = "TMPL-010"
    /\ Len(warnings(dOut["a"].value)) >= 3

\* A run on an archive without its presentation part stopped at the third
\* terminal check: the report blocks and its counts are 0, though the
\* archive holds slides and masters.
C29_WitnessTerminal ==
    /\ dPc["a"] = "done"
    /\ dOut["a"].ok
    /\ dIn["a"].file.exists
    /\ dIn["a"].file.is_zip
    /\ MissingParts(dIn["a"].file) # << >>
    /\ Len(SelectSeq(namelist(dIn["a"].file), is_master_file)) = 4
    /\ has_blocking_issues(dOut["a"].value)
    /\ dOut["a"].value.master_count = 0

----------------------------------------------------------------------------
(* DiagnosticReport as a state machine.  The initial state holds a report  *)
(* as a caller constructed it; the actions append an issue to its list and *)
(* take its dict.                                                          *)

SomeIssues ==
    { DiagnosticIssue([ code |-> "TMPL-001", severity |-> "error",
                        message |-> << "Template file not found" >>,
                        category |-> "file", detail |-> "template.pptx" ]),
      DiagnosticIssue([ code |-> "TMPL-010", severity |-> "warning",
                        message |-> << "Slide missing TITLE placeholder" >>,
                        slide_index |-> << 1 >>,
                        category |-> "placeholder" ]),
      DiagnosticIssue([ code |-> "TMPL-030", severity |-> "warning",
                        message |-> << "Template has ", "4",
                                       " slide masters (>3 may cause bloat)" >>,
                        category |-> "structure" ]),
      DiagnosticIssue([ code |-> "TMPL-012", severity |-> "info",
                        message |-> << "Slide has no PICTURE placeholder" >>,
                        slide_index |-> << 1 >>,
                        category |-> "placeholder" ]) }

MaxIssues == 4

ReportArgs ==
    { << >>,
      [ slide_count |-> 3, layout_count |-> 2, master_count |-> 1 ] }
    \cup { [ issues |-> << i >> ] : i \in SomeIssues }

InitReport ==
    /\ rReport \in { DiagnosticReport(kw) : kw \in ReportArgs }
    /\ rDict = NotCalled
    /\ DiagnoseIdle
    /\ ContentIdle
    /\ CookbookIdle

\* report.issues.append(issue)
AppendIssue ==
    /\ rReport # NotCalled
    /\ Len(rReport.issues) < MaxIssues
    /\ \E issue \in SomeIssues :
           rReport' = [ rReport EXCEPT !.issues = Append(@, issue) ]
    /\ UNCHANGED rDict
    /\ UNCHANGED << contentVars, cookbookVars, diagnoseVars >>

\* d = report.to_dict()
CallToDict ==
    /\ rReport # NotCalled
    /\ rDict' = to_dict(rReport)
    /\ UNCHANGED rReport
    /\ UNCHANGED << contentVars, cookbookVars, diagnoseVars >>

NextReport ==
    \/ AppendIssue
    \/ CallToDict

SpecReport == InitReport /\ [][NextReport]_vars

----------------------------------------------------------------------------
(* Properties of DiagnosticReport *)

HasError(issues) == \E k \in 1..Len(issues) : issues[k].severity = "error"

\* C5: in every state of a report, has_blocking_issues is true if and only
\* if at least one issue has severity error, whatever the number of warning
\* and info issues; the dict that to_dict returns holds the same boolean
\* for the issues it lists, and an error_count that is zero exactly when
\* that boolean is false.
C5_BlockingIffError ==
    /\ rReport # NotCalled =>
           (has_blocking_issues(rReport) <=> HasError(rReport.issues))
    /\ rDict # NotCalled =>
           /\ rDict.has_blocking_issues <=> HasError(rDict.issues)
           /\ rDict.issues = rReport.issues =>
                  rDict.has_blocking_issues = has_blocking_issues(rReport)
           /\ (rDict.error_count = 0) <=> ~rDict.has_blocking_issues

\* A report that holds three or more warning and info issues and no error
\* has given its dict.
C5_Witness ==
    /\ rReport # NotCalled
    /\ rDict # NotCalled
    /\ Len(rReport.issues) >= 3
    /\ ~HasError(rReport.issues)
    /\ rDict.issues = rReport.issues
    /\ rDict.warning_count >= 2
    /\ ~rDict.has_blocking_issues

====
